---- MODULE Spec2Model ----
(***************************************************************************)
(* State-machine model of MemAgent's memory engine (MemAgent/memory):      *)
(* the Chroma record store, the SQLite memory_metadata and memory_history  *)
(* tables, and the methods of Memory / BaseMemory that read and write      *)
(* them.  Every method is split at its calls into the stores, so that      *)
(* concurrent callers interleave exactly where the code lets them.         *)
(***************************************************************************)
EXTENDS Integers, Sequences, FiniteSets, TLC

(***************************************************************************)
(* Bounds of the model.                                                    *)
(***************************************************************************)
\* Total number of method calls started in one behaviour.
MaxCalls == 3
\* Largest value of the clock (CURRENT_TIMESTAMP / datetime.now()).
MaxClock == 1
\* The inputs of the strength formula that C18 ranges over: importance (in
\* tenths), access count and recency (in clock units).
MaxImportance == 3
MaxAccess == 5
MaxRecency == 2
\* Concurrent callers.
Threads == {1, 2}
\* Memory contents handed to add / update.
Data == {"a", "b"}
\* Texts that are embedded as queries (facts extracted by the LLM).
Queries == {"a", "ab"}
\* Fact lists the extraction prompt returns: split(", ") never yields [], and
\* an empty response gives the one fact "".
FactLists == {<<"">>, <<"a">>, <<"ab", "a">>}
\* Importance values the rating prompt yields, in tenths (0.0 and 0.5).
Importances == {0, 5}
\* Decay thresholds, in tenths (0, the default 0.5, and one above every strength).
Thresholds == {0, 5, 1000}

(***************************************************************************)
(* Values.                                                                 *)
(***************************************************************************)
\* Python's None.
NoneVal == "None"
\* An id string that uuid4 never generates (e.g. "missing-id").
MissingId == 0
\* Scope tags: user_id / agent_id / run_id, each possibly None.
UserIds == {NoneVal, "u1"}
AgentIds == {NoneVal}
RunIds == {NoneVal}
Scopes == [user_id : UserIds, agent_id : AgentIds, run_id : RunIds]
NoScope == [user_id |-> NoneVal, agent_id |-> NoneVal, run_id |-> NoneVal]

\* n_results of collection.query and the default distance_threshold (tenths).
NResults == 10
DistanceThreshold == 8

VARIABLES
    store,    \* Chroma collection: id -> [document, metadata]
    meta,     \* memory_metadata: memory_id -> [importance, access_count, last_accessed_timestamp]
    hist,     \* memory_history rows in rowid (insertion) order
    nextId,   \* ids handed out by uuid4 so far are 1 .. nextId-1
    clock,    \* wall clock, in the unit of the stored timestamps
    calls,    \* number of calls started
    thr,      \* per caller: program counter and the locals of its current call
    pre       \* the stores as they were when the latest call started

vars == <<store, meta, hist, nextId, clock, calls, thr, pre>>

\* Ids uuid4 has generated so far; callers and the LLM can name these or MissingId.
KnownIds == 1 .. (nextId - 1)
NameableIds == KnownIds \cup {MissingId}
LiveIds == DOMAIN store

(***************************************************************************)
(* Sequence helpers.                                                       *)
(***************************************************************************)
RECURSIVE SelectRows(_, _)
SelectRows(rows, id) ==
    IF rows = <<>> THEN <<>>
    ELSE IF Head(rows).memory_id = id
         THEN <<Head(rows)>> \o SelectRows(Tail(rows), id)
         ELSE SelectRows(Tail(rows), id)

RECURSIVE SetToSeqById(_)
SetToSeqById(S) ==
    IF S = {} THEN <<>>
    ELSE LET m == CHOOSE x \in S : \A y \in S : x <= y
         IN <<m>> \o SetToSeqById(S \ {m})

Range(s) == {s[i] : i \in DOMAIN s}

(***************************************************************************)
(* BaseMemory._log_history: one INSERT into memory_history; the timestamp  *)
(* column takes its DEFAULT CURRENT_TIMESTAMP.                             *)
(***************************************************************************)
HistoryRow(memory_id, action, data) ==
    [memory_id |-> memory_id, action |-> action, data |-> data, timestamp |-> clock]

\* A variant that keeps one row for each memory_id, the latest, as an INSERT
\* OR REPLACE keyed by the memory_id would; C30 tells it from LogHistory.
LogHistoryLatest(memory_id, action, data) ==
    hist' = Append(SelectSeq(hist, LAMBDA r : r.memory_id # memory_id),
                   HistoryRow(memory_id, action, data))

LogHistory(memory_id, action, data) ==
    hist' = Append(hist, HistoryRow(memory_id, action, data))

(***************************************************************************)
(* BaseMemory.history: SELECT action, data, timestamp ... WHERE memory_id  *)
(* = ? ORDER BY timestamp ASC.  The rows of the id are returned sorted by  *)
(* timestamp; SQL leaves the order of rows with equal timestamps open, so  *)
(* the method has a set of possible results.                               *)
(***************************************************************************)
HistoryTuple(row) == <<row.action, row.data, row.timestamp>>

OrderedByTimestamp(rows, p) ==
    \A i, j \in DOMAIN rows : i < j => rows[p[i]].timestamp <= rows[p[j]].timestamp

Orderings(n) ==
    {p \in [1 .. n -> 1 .. n] : \A i, j \in 1 .. n : i # j => p[i] # p[j]}

HistoryIn(rows_all, memory_id) ==
    LET rows == SelectRows(rows_all, memory_id)
        n == Len(rows)
    IN {[i \in 1 .. n |-> HistoryTuple(rows[p[i]])] :
            p \in {q \in Orderings(n) : OrderedByTimestamp(rows, q)}}

history(memory_id) == HistoryIn(hist, memory_id)

\* The rows of an id in the order they were inserted.
LogIn(rows_all, memory_id) ==
    LET rows == SelectRows(rows_all, memory_id)
    IN [i \in 1 .. Len(rows) |-> HistoryTuple(rows[i])]

LogOf(memory_id) == LogIn(hist, memory_id)

(***************************************************************************)
(* Scope filters: the where_clause of search / get_all / delete_all holds  *)
(* a key for every argument that is truthy, and Chroma keeps the records   *)
(* whose tags equal every key of it.                                       *)
(***************************************************************************)
Matches(where, tags) ==
    /\ where.user_id # NoneVal => tags.user_id = where.user_id
    /\ where.agent_id # NoneVal => tags.agent_id = where.agent_id
    /\ where.run_id # NoneVal => tags.run_id = where.run_id

\* BaseMemory._get_all_memories_from_collection, on the collection s.
GetAllIds(s, where) == {id \in DOMAIN s : Matches(where, s[id].metadata)}

GetAllIn(s, where) ==
    LET ids == SetToSeqById(GetAllIds(s, where))
    IN [i \in 1 .. Len(ids) |->
            [id |-> ids[i], document |-> s[ids[i]].document,
             metadata |-> s[ids[i]].metadata]]

get_all(where) == GetAllIn(store, where)

(***************************************************************************)
(* Memory.search: collection.query of the query's embedding, n_results =   *)
(* 10, nearest first, then the distance cut-off.  The embedding is an      *)
(* external capability: equal texts are at distance 0, the query "ab" is   *)
(* near every document, other texts are far apart (distances in tenths).   *)
(***************************************************************************)
Distance(q, d) == IF q = d THEN 0 ELSE IF q = "ab" THEN 5 ELSE 10

RECURSIVE NearestFirst(_, _, _)
NearestFirst(s, q, S) ==
    IF S = {} THEN <<>>
    ELSE LET m == CHOOSE x \in S : \A y \in S :
                    \/ Distance(q, s[x].document) < Distance(q, s[y].document)
                    \/ /\ Distance(q, s[x].document) = Distance(q, s[y].document)
                       /\ x <= y
         IN <<m>> \o NearestFirst(s, q, S \ {m})

SearchIn(s, q, where) ==
    LET ranked == NearestFirst(s, q, GetAllIds(s, where))
        top == SubSeq(ranked, 1, IF Len(ranked) < NResults THEN Len(ranked) ELSE NResults)
    IN SelectSeq(top, LAMBDA id : Distance(q, s[id].document) < DistanceThreshold)

search(q, where) == SearchIn(store, q, where)

\* A variant that keeps each id at the place where it was seen last; C28 tells
\* it from FirstSeen.
RECURSIVE LastSeen(_)
LastSeen(ids) ==
    IF ids = <<>> THEN <<>>
    ELSE LET rest == LastSeen(Tail(ids))
         IN IF Head(ids) \in Range(rest) THEN rest ELSE <<Head(ids)>> \o rest

\* unique_related_memories = {mem["id"]: mem for mem in related_memories}.values():
\* a dict keeps each key at the place of its first insertion.
RECURSIVE FirstSeen(_)
FirstSeen(ids) ==
    IF ids = <<>> THEN <<>>
    ELSE LET rest == FirstSeen(SubSeq(ids, 1, Len(ids) - 1))
             last == ids[Len(ids)]
         IN IF last \in Range(rest) THEN rest ELSE Append(rest, last)

(***************************************************************************)
(* The Chroma collection calls of BaseMemory.                              *)
(***************************************************************************)
\* _add_memory_to_collection: collection.add of one id with its document and tags.
\* A variant that stores the document without its tags; C7 tells it from
\* AddToCollection.
AddWithoutTags(s, id, data, tags) ==
    (id :> [document |-> data, metadata |-> NoScope]) @@ s

AddToCollection(s, id, data, tags) ==
    (id :> [document |-> data, metadata |-> tags]) @@ s

\* _update_memory_in_collection: collection.update changes a record that
\* exists and ignores an id that does not.
UpdateInCollection(s, id, data) ==
    IF id \in DOMAIN s THEN [s EXCEPT ![id].document = data] ELSE s

\* _delete_memory_from_collection: collection.delete(ids=[id]).
DeleteFromCollection(s, id) ==
    [x \in DOMAIN s \ {id} |-> s[x]]

\* _delete_all_memories_from_collection: collection.delete(where=...).
DeleteWhere(s, where) ==
    [x \in {y \in DOMAIN s : ~Matches(where, s[y].metadata)} |-> s[x]]

(***************************************************************************)
(* BaseMemory._update_metadata(memory_id, importance, access_count); an    *)
(* argument left at None is NoArg.                                         *)
(***************************************************************************)
NoArg == -1
\* cursor.fetchone() found no row.
NoRow == -1

MetaInsertOrReplace(m, id, importance) ==
    (id :> [importance |-> importance, access_count |-> 1,
            last_accessed_timestamp |-> clock]) @@ m

\* A variant that leaves last_accessed_timestamp as it is; C19 tells it from
\* MetaSetAccess.
MetaSetCountOnly(m, id, access_count) ==
    IF id \in DOMAIN m
    THEN [m EXCEPT ![id].access_count = access_count]
    ELSE m

MetaSetAccess(m, id, access_count) ==
    IF id \in DOMAIN m
    THEN [m EXCEPT ![id].access_count = access_count,
                   ![id].last_accessed_timestamp = clock]
    ELSE m

UpdateMetadata(m, id, importance, access_count) ==
    LET m1 == IF importance # NoArg THEN MetaInsertOrReplace(m, id, importance) ELSE m
    IN IF access_count # NoArg THEN MetaSetAccess(m1, id, access_count) ELSE m1

(***************************************************************************)
(* BaseMemory.calculate_strength: importance * (1 + access_count) *        *)
(* (1 / (1 + recency)), and 0.0 without a metadata row.  The value is kept *)
(* as numerator and denominator; importance and thresholds are in tenths,  *)
(* recency in clock units.                                                 *)
(***************************************************************************)
\* A variant that adds where the code multiplies; C17 tells it from
\* StrengthNumOf.
StrengthSum(importance, access_count) == importance + (1 + access_count)

\* A variant that leaves the access count out; C18 tells it from StrengthNumOf.
StrengthOfImportance(importance, access_count) == importance

\* importance * (1 + access_count)
StrengthNumOf(importance, access_count) == importance * (1 + access_count)

\* 1 + recency
StrengthDenOf(recency) == 1 + recency

\* The strength of id by the metadata table m at the time now.
StrengthNumIn(m, id) ==
    IF id \in DOMAIN m
    THEN StrengthNumOf(m[id].importance, m[id].access_count)
    ELSE 0

StrengthDenIn(m, now, id) ==
    IF id \in DOMAIN m
    THEN StrengthDenOf(now - m[id].last_accessed_timestamp)
    ELSE 1

StrengthNum(id) == StrengthNumIn(meta, id)

StrengthDen(id) == StrengthDenIn(meta, clock, id)

\* A variant that also takes a strength equal to the threshold; C11 tells it
\* from Less.
AtMost(num, den, threshold) == num <= threshold * den

\* A variant with the comparison turned round; C12 tells it from Less.
Above(num, den, threshold) == num > threshold * den

\* strength < threshold
Less(num, den, threshold) == num < threshold * den

BelowIn(m, now, id, threshold) ==
    Less(StrengthNumIn(m, id), StrengthDenIn(m, now, id), threshold)

BelowThreshold(id, threshold) == BelowIn(meta, clock, id, threshold)

(***************************************************************************)
(* The decision string of Memory._infer_and_add, as its sequence of        *)
(* tokens: <<"UPDATE", ":", 3>> is the text "UPDATE:<id 3>".               *)
(***************************************************************************)
Decisions ==
    {<<"ADD">>, <<"banana">>, <<"UPDATE">>}
        \cup {<<"UPDATE", ":", id>> : id \in NameableIds}
        \cup {<<"DELETE", ":", id>> : id \in NameableIds}

\* A variant, decision.startswith(word), that takes a bare "UPDATE" for an
\* update; C8 tells it from StartsWith.
StartsWithWord(decision, word) ==
    Len(decision) >= 1 /\ decision[1] = word

\* decision.startswith(word + ":")
StartsWith(decision, word) ==
    Len(decision) >= 2 /\ decision[1] = word /\ decision[2] = ":"

\* decision.split(":")[1]; the text after a final ":" is empty, an id no record has.
TargetOf(decision) == IF Len(decision) >= 3 THEN decision[3] ELSE MissingId

\* The if / elif chain of _infer_and_add: which method the decision runs.
Branch(decision) ==
    IF decision = <<"ADD">> THEN "add"
    ELSE IF StartsWith(decision, "UPDATE") THEN "update"
    ELSE IF StartsWith(decision, "DELETE") THEN "delete"
    ELSE "add"

(***************************************************************************)
(* Callers.  A frame holds the program counter and the locals of a call in *)
(* progress; a caller that is not in a call holds the idle frame, with the *)
(* outcome of the call it finished last.                                   *)
(***************************************************************************)
\* The local result of Memory.get before _get_memory_from_collection has set it.
NoResult == [id |-> MissingId, document |-> "", metadata |-> NoScope]

\* No rec argument: the frame of a call that is not an upsert.
NoRecord == [id |-> MissingId, text |-> "", meta |-> NoScope, salience |-> NoArg]

\* fault names the capability call whose exception ended the call.
IdleFrame ==
    [pc |-> "idle", outcome |-> "none", op |-> "none", data |-> "", scope |-> NoScope,
     infer |-> FALSE, mid |-> MissingId, decision |-> <<>>, facts |-> <<>>, fidx |-> 1,
     related |-> <<>>, snap |-> <<>>, idx |-> 1, row |-> NoRow, threshold |-> 0,
     result |-> NoResult, fault |-> "none", rec |-> NoRecord, listed |-> <<>>]

Snapshot ==
    [store |-> store, meta |-> meta, hist |-> hist, nextId |-> nextId, clock |-> clock]

Init ==
    /\ store = <<>>
    /\ meta = <<>>
    /\ hist = <<>>
    /\ nextId = 1
    /\ clock = 0
    /\ calls = 0
    /\ thr = [t \in Threads |-> IdleFrame]
    /\ pre = [store |-> <<>>, meta |-> <<>>, hist |-> <<>>, nextId |-> 1, clock |-> 0]

At(t, label) == thr[t].pc = label

Set(t, frame) == thr' = [thr EXCEPT ![t] = frame]

\* A caller enters a method: the step is the method's code up to and with
\* its first access to a store.
Begin(t) ==
    /\ At(t, "idle")
    /\ calls < MaxCalls
    /\ calls' = calls + 1
    /\ pre' = Snapshot

\* A caller goes on in its method from the given place.
Cont(t, label) ==
    /\ At(t, label)
    /\ UNCHANGED <<calls, pre>>

\* The method returns normally / an exception leaves it.
Return == [IdleFrame EXCEPT !.outcome = "ok"]
Raise == [IdleFrame EXCEPT !.outcome = "raised"]

NewCall(op) == [IdleFrame EXCEPT !.op = op, !.outcome = "running"]

(***************************************************************************)
(* Failing capabilities: the embedding call or the LLM call raises, and    *)
(* the exception leaves the method at the line of the call.                *)
(***************************************************************************)
\* _get_embedding raises in _add_memory_to_collection, _update_memory_in_collection
\* or search, before the method has touched a store.
FirstCallFails(t) ==
    /\ Begin(t)
    /\ Set(t, Raise)
    /\ UNCHANGED <<store, meta, hist, nextId, clock>>

EmbeddingFails(t) ==
    /\ thr[t].pc \in {"add_insert", "update_store", "infer_search"}
    /\ Set(t, Raise)
    /\ UNCHANGED <<store, meta, hist, nextId, clock, calls, pre>>

\* _get_llm_response raises at the decision prompt or at the importance prompt.
LlmFails(t) ==
    /\ thr[t].pc \in {"infer_decide", "add_meta"}
    /\ Set(t, Raise)
    /\ UNCHANGED <<store, meta, hist, nextId, clock, calls, pre>>

(***************************************************************************)
(* Memory.add(infer=False) and Memory._add_memory.                         *)
(***************************************************************************)
\* memory_id = self._add_memory_to_collection(data, user_id, agent_id, run_id)
Insert(t, f) ==
    /\ store' = AddToCollection(store, nextId, f.data, f.scope)
    /\ nextId' = nextId + 1
    /\ Set(t, [f EXCEPT !.mid = nextId, !.pc = "add_log"])
    /\ UNCHANGED <<meta, hist, clock>>

AddInsert(t, scopes) ==
    \/ /\ Begin(t)
       /\ \E data \in Data, scope \in scopes :
             Insert(t, [NewCall("add") EXCEPT !.data = data, !.scope = scope])
    \/ /\ Cont(t, "add_insert")
       /\ Insert(t, thr[t])

\* self._log_history(memory_id, "ADD", data)
AddLog(t) ==
    /\ Cont(t, "add_log")
    /\ LogHistory(thr[t].mid, "ADD", thr[t].data)
    /\ Set(t, [thr[t] EXCEPT !.pc = "add_meta"])
    /\ UNCHANGED <<store, meta, nextId, clock>>

\* importance = parse(LLM rating); self._update_metadata(memory_id, importance=importance)
AddMeta(t) ==
    /\ Cont(t, "add_meta")
    /\ \E importance \in Importances :
          meta' = UpdateMetadata(meta, thr[t].mid, importance, NoArg)
    /\ Set(t, Return)
    /\ UNCHANGED <<store, hist, nextId, clock>>

(***************************************************************************)
(* Memory.add(infer=True): Memory._infer_and_add.                          *)
(***************************************************************************)
\* _get_llm_response raises at the fact-extraction prompt: _infer_and_add has
\* no handler around the call, and the exception leaves add.
ExtractionFails(t) ==
    /\ Begin(t)
    /\ Set(t, [Raise EXCEPT !.fault = "extraction"])
    /\ UNCHANGED <<store, meta, hist, nextId, clock>>

\* facts = self._get_llm_response(fact_extraction_prompt).strip().split(", ")
InferFacts(t, scopes) ==
    /\ Begin(t)
    /\ \E data \in Data, scope \in scopes, facts \in FactLists :
          Set(t, [NewCall("add") EXCEPT !.data = data, !.scope = scope, !.infer = TRUE,
                                        !.facts = facts, !.pc = "infer_search"])
    /\ UNCHANGED <<store, meta, hist, nextId, clock>>

\* One turn of: for fact in facts: related_memories.extend(self.search(fact, ...))
InferSearch(t) ==
    /\ Cont(t, "infer_search")
    /\ LET f == thr[t]
           found == search(f.facts[f.fidx], f.scope)
       IN Set(t, [f EXCEPT !.related = f.related \o found,
                           !.fidx = f.fidx + 1,
                           !.pc = IF f.fidx = Len(f.facts) THEN "infer_decide"
                                  ELSE "infer_search"])
    /\ UNCHANGED <<store, meta, hist, nextId, clock>>

\* What the decision prompt shows as the existing related memories.
UniqueRelated(t) == FirstSeen(thr[t].related)

\* decision = self._get_llm_response(decision_prompt).strip(), and the if / elif
\* chain up to the call of _add_memory, update or delete.
Dispatch(f, decision) ==
    LET g == [f EXCEPT !.decision = decision, !.facts = <<>>, !.fidx = 1, !.related = <<>>]
    IN IF Branch(decision) = "update"
       THEN [g EXCEPT !.mid = TargetOf(decision), !.pc = "update_store"]
       ELSE IF Branch(decision) = "delete"
       THEN [g EXCEPT !.mid = TargetOf(decision), !.pc = "delete_store"]
       ELSE [g EXCEPT !.pc = "add_insert"]

InferDecide(t) ==
    /\ Cont(t, "infer_decide")
    /\ \E decision \in Decisions : Set(t, Dispatch(thr[t], decision))
    /\ UNCHANGED <<store, meta, hist, nextId, clock>>

(***************************************************************************)
(* Memory.update and Memory.delete.                                        *)
(***************************************************************************)
\* self._update_memory_in_collection(memory_id, data)
\* A variant that also rates the new content and writes the rating as the
\* metadata of the id; C36 tells it from Replace.
ReplaceAndRate(t, f) ==
    /\ store' = UpdateInCollection(store, f.mid, f.data)
    /\ \E importance \in Importances : meta' = MetaInsertOrReplace(meta, f.mid, importance)
    /\ Set(t, [f EXCEPT !.pc = "update_log"])
    /\ UNCHANGED <<hist, nextId, clock>>

Replace(t, f) ==
    /\ store' = UpdateInCollection(store, f.mid, f.data)
    /\ Set(t, [f EXCEPT !.pc = "update_log"])
    /\ UNCHANGED <<meta, hist, nextId, clock>>

UpdateStore(t) ==
    \/ /\ Begin(t)
       /\ \E id \in NameableIds, data \in Data :
             Replace(t, [NewCall("update") EXCEPT !.mid = id, !.data = data])
    \/ /\ Cont(t, "update_store")
       /\ Replace(t, thr[t])

\* self._log_history(memory_id, "UPDATE", data)
UpdateLog(t) ==
    /\ Cont(t, "update_log")
    /\ LogHistory(thr[t].mid, "UPDATE", thr[t].data)
    /\ Set(t, Return)
    /\ UNCHANGED <<store, meta, nextId, clock>>

\* self._delete_memory_from_collection(memory_id)
Remove(t, f) ==
    /\ store' = DeleteFromCollection(store, f.mid)
    /\ Set(t, [f EXCEPT !.pc = "delete_log"])
    /\ UNCHANGED <<meta, hist, nextId, clock>>

DeleteStore(t) ==
    \/ /\ Begin(t)
       /\ \E id \in NameableIds : Remove(t, [NewCall("delete") EXCEPT !.mid = id])
    \/ /\ Cont(t, "delete_store")
       /\ Remove(t, thr[t])

\* self._log_history(memory_id, "DELETE", "")
DeleteLog(t) ==
    /\ Cont(t, "delete_log")
    /\ LogHistory(thr[t].mid, "DELETE", "")
    /\ Set(t, Return)
    /\ UNCHANGED <<store, meta, nextId, clock>>

(***************************************************************************)
(* The where document that search, get_all and delete_all build: one key   *)
(* for every scope argument that is truthy, None when there is none.       *)
(* What Chroma makes of it depends on the installed release, which the     *)
(* repository does not pin: the older releases read several keys as a      *)
(* conjunction and take a delete with neither ids nor where as "delete     *)
(* everything"; the newer ones raise ValueError for a where document with  *)
(* more than one key ("Expected where to have exactly one operator") and   *)
(* for a delete that names neither ids nor where.                          *)
(***************************************************************************)
ScopeFields == {"user_id", "agent_id", "run_id"}

WhereClause(scope) == {k \in ScopeFields : scope[k] # NoneVal}

ChromaReleases == {"implicit_and", "one_operator"}

\* collection.get(where=...) and collection.query(where=...)
WhereAccepted(release, scope) ==
    release = "implicit_and" \/ Cardinality(WhereClause(scope)) <= 1

\* collection.delete(where=...)
DeleteAccepted(release, scope) ==
    /\ WhereAccepted(release, scope)
    /\ release = "implicit_and" \/ WhereClause(scope) # {}

(***************************************************************************)
(* Memory.delete_all: one collection.delete(where=...) and nothing else.   *)
(***************************************************************************)
\* A variant that also deletes the metadata rows of the records it removes;
\* C16 tells it from DeleteAll.
DeleteAllCascading(t, scopes) ==
    /\ Begin(t)
    /\ \E scope \in scopes :
          /\ store' = DeleteWhere(store, scope)
          /\ meta' = [id \in DOMAIN meta \cap DOMAIN DeleteWhere(store, scope) |-> meta[id]]
    /\ Set(t, Return)
    /\ UNCHANGED <<hist, nextId, clock>>

\* The where document is handed to Chroma as built; the installed release
\* decides whether it is accepted (WhereAccepted, DeleteAccepted).
DeleteAll(t, scopes) ==
    /\ Begin(t)
    /\ \E scope \in scopes, release \in ChromaReleases :
          IF DeleteAccepted(release, scope)
          THEN /\ store' = DeleteWhere(store, scope)
               /\ Set(t, [Return EXCEPT !.op = "delete_all", !.scope = scope])
          ELSE /\ store' = store
               /\ Set(t, [Raise EXCEPT !.op = "delete_all", !.scope = scope])
    /\ UNCHANGED <<meta, hist, nextId, clock>>

(***************************************************************************)
(* Memory.get.                                                             *)
(***************************************************************************)
\* A variant that goes on to the metadata of the id whether or not the
\* collection holds a record of it; C23 tells it from GetFetch.
GetFetchAnyRow(t) ==
    /\ Begin(t)
    /\ \E id \in NameableIds :
          Set(t, [NewCall("get") EXCEPT
                     !.mid = id, !.pc = "get_select",
                     !.result = IF id \in LiveIds
                                THEN [id |-> id, document |-> store[id].document,
                                      metadata |-> store[id].metadata]
                                ELSE NoResult])
    /\ UNCHANGED <<store, meta, hist, nextId, clock>>

\* result = self._get_memory_from_collection(memory_id); if result: ... return None
GetFetch(t) ==
    /\ Begin(t)
    /\ \E id \in NameableIds :
          Set(t, IF id \in LiveIds
                 THEN [NewCall("get") EXCEPT
                          !.mid = id, !.pc = "get_select",
                          !.result = [id |-> id, document |-> store[id].document,
                                      metadata |-> store[id].metadata]]
                 ELSE Return)
    /\ UNCHANGED <<store, meta, hist, nextId, clock>>

\* SELECT access_count FROM memory_metadata WHERE memory_id = ?; if row: ...
GetSelect(t) ==
    /\ Cont(t, "get_select")
    /\ LET row == IF thr[t].mid \in DOMAIN meta THEN meta[thr[t].mid].access_count
                  ELSE NoRow
       IN Set(t, IF row = NoRow THEN Return
                 ELSE [thr[t] EXCEPT !.row = row, !.pc = "get_write"])
    /\ UNCHANGED <<store, meta, hist, nextId, clock>>

\* access_count = row[0] + 1; self._update_metadata(memory_id, access_count=access_count)
GetWrite(t) ==
    /\ Cont(t, "get_write")
    /\ meta' = UpdateMetadata(meta, thr[t].mid, NoArg, thr[t].row + 1)
    /\ Set(t, Return)
    /\ UNCHANGED <<store, hist, nextId, clock>>

(***************************************************************************)
(* BaseMemory.decay_memories.                                              *)
(***************************************************************************)
\* The loop head: the next memory of all_memories, or the end of the method.
\* A variant that goes back to the first record of the snapshot after each
\* record; C33 tells it from DecayAt.
DecayFromStart(f, idx) ==
    IF idx > Len(f.snap) THEN [Return EXCEPT !.threshold = f.threshold]
    ELSE [f EXCEPT !.idx = 1, !.pc = "decay_check"]

DecayAt(f, idx) ==
    IF idx > Len(f.snap) THEN [Return EXCEPT !.threshold = f.threshold]
    ELSE [f EXCEPT !.idx = idx, !.pc = "decay_check"]

\* all_memories = self._get_all_memories_from_collection()
DecaySnapshot(t) ==
    /\ Begin(t)
    /\ \E threshold \in Thresholds :
          Set(t, DecayAt([NewCall("decay") EXCEPT !.threshold = threshold,
                             !.snap = SetToSeqById(GetAllIds(store, NoScope))], 1))
    /\ UNCHANGED <<store, meta, hist, nextId, clock>>

\* strength = self.calculate_strength(memory["id"]); if strength < threshold:
DecayCheck(t) ==
    /\ Cont(t, "decay_check")
    /\ LET f == thr[t]
       IN Set(t, IF BelowThreshold(f.snap[f.idx], f.threshold)
                 THEN [f EXCEPT !.pc = "decay_delete"]
                 ELSE DecayAt(f, f.idx + 1))
    /\ UNCHANGED <<store, meta, hist, nextId, clock>>

\* A variant that leaves the record in the collection and goes on to log
\* DECAY; C37 tells it from DecayDelete.
DecayLogOnly(t) ==
    /\ Cont(t, "decay_delete")
    /\ Set(t, [thr[t] EXCEPT !.pc = "decay_log"])
    /\ UNCHANGED <<store, meta, hist, nextId, clock>>

\* self._delete_memory_from_collection(memory["id"])
DecayDelete(t) ==
    /\ Cont(t, "decay_delete")
    /\ store' = DeleteFromCollection(store, thr[t].snap[thr[t].idx])
    /\ Set(t, [thr[t] EXCEPT !.pc = "decay_log"])
    /\ UNCHANGED <<meta, hist, nextId, clock>>

\* self._log_history(memory["id"], "DECAY", "")
DecayLog(t) ==
    /\ Cont(t, "decay_log")
    /\ LogHistory(thr[t].snap[thr[t].idx], "DECAY", "")
    /\ Set(t, DecayAt(thr[t], thr[t].idx + 1))
    /\ UNCHANGED <<store, meta, nextId, clock>>

(***************************************************************************)
(* Time passes.                                                            *)
(***************************************************************************)
Tick ==
    /\ clock < MaxClock
    /\ clock' = clock + 1
    /\ UNCHANGED <<store, meta, hist, nextId, calls, thr, pre>>

(***************************************************************************)
(* Specifications: Spec lets the callers of Threads run concurrently, all  *)
(* without scope tags; SeqSpec has a single caller, whose calls follow one *)
(* another and use every scope of Scopes.                                  *)
(***************************************************************************)
Step(t, scopes) ==
    \/ AddInsert(t, scopes) \/ AddLog(t) \/ AddMeta(t)
    \/ ExtractionFails(t)
    \/ InferFacts(t, scopes) \/ InferSearch(t) \/ InferDecide(t)
    \/ UpdateStore(t) \/ UpdateLog(t)
    \/ DeleteStore(t) \/ DeleteLog(t)
    \/ DeleteAll(t, scopes)
    \/ GetFetch(t) \/ GetSelect(t) \/ GetWrite(t)
    \/ DecaySnapshot(t) \/ DecayCheck(t) \/ DecayDelete(t) \/ DecayLog(t)
    \/ FirstCallFails(t) \/ EmbeddingFails(t) \/ LlmFails(t)

Next == Tick \/ \E t \in Threads : Step(t, {NoScope})

Spec == Init /\ [][Next]_vars

SoleCaller == {1}

NextSeq == Tick \/ \E t \in SoleCaller : Step(t, Scopes)

SeqSpec == Init /\ [][NextSeq]_vars

(***************************************************************************)
(* Failing stores.  No method of Memory catches an exception: when the     *)
(* collection call of a removal or the INSERT of _log_history raises, the  *)
(* exception leaves the method at that line.  FaultSpec is the single      *)
(* caller of SeqSpec with these failures.                                  *)
(***************************************************************************)
\* collection.delete raises in _delete_memory_from_collection.
CollectionFails(t) ==
    /\ thr[t].pc \in {"delete_store", "decay_delete"}
    /\ Set(t, Raise)
    /\ UNCHANGED <<store, meta, hist, nextId, clock, calls, pre>>

\* A variant in which the caller of _log_history swallows the exception and
\* the method returns; C15 tells it from HistoryFails.
HistoryFailsUnseen(t) ==
    /\ thr[t].pc \in {"add_log", "update_log", "delete_log", "decay_log"}
    /\ Set(t, Return)
    /\ UNCHANGED <<store, meta, hist, nextId, clock, calls, pre>>

\* cursor.execute or conn.commit raises in _log_history.
HistoryFails(t) ==
    /\ thr[t].pc \in {"add_log", "update_log", "delete_log", "decay_log"}
    /\ Set(t, Raise)
    /\ UNCHANGED <<store, meta, hist, nextId, clock, calls, pre>>

(***************************************************************************)
(* StrengthSpec: sweeps of a single caller over a store of two records     *)
(* that were rated and read before, for every importance, access count and *)
(* time of last access within the bounds.                                  *)
(***************************************************************************)
RatedEntries ==
    [importance : 0 .. MaxImportance, access_count : 1 .. MaxAccess,
     last_accessed_timestamp : 0 .. MaxRecency]

InitRated ==
    /\ store = [id \in {1, 2} |-> [document |-> "a", metadata |-> NoScope]]
    /\ meta \in [{1, 2} -> RatedEntries]
    /\ hist = [i \in {1, 2} |->
                 [memory_id |-> i, action |-> "ADD", data |-> "a", timestamp |-> 0]]
    /\ nextId = 3
    /\ clock = MaxRecency
    /\ calls = 0
    /\ thr = [t \in Threads |-> IdleFrame]
    /\ pre = [store |-> <<>>, meta |-> <<>>, hist |-> <<>>, nextId |-> 1, clock |-> 0]

NextStrength ==
    \E t \in SoleCaller :
        DecaySnapshot(t) \/ DecayCheck(t) \/ DecayDelete(t) \/ DecayLog(t)

StrengthSpec == InitRated /\ [][NextStrength]_vars

NextFault ==
    \/ NextSeq
    \/ \E t \in SoleCaller : CollectionFails(t) \/ HistoryFails(t)

FaultSpec == Init /\ [][NextFault]_vars

(***************************************************************************)
(* SQLiteProvider (MemAgent/provider/sqlite.py).  Its constructor takes    *)
(* the same db_path as Memory's and names the same collection, mem0, of    *)
(* the process's Chroma client, and its two tables have the names and      *)
(* columns of BaseMemory's: a provider and a Memory opened on one database *)
(* file read and write the same record store, metadata and history.        *)
(***************************************************************************)
\* The record model, MemRecord of MemAgent/model/record.py (the fields that
\* play no part here are left out), and the objects that carry the attributes
\* upsert reads: id, text, meta, salience (None is NoArg), model_dump_json().
MemRecords ==
    [id : NameableIds, content : Data, importance : {5}, metadata : {NoScope}]

UpsertRecords ==
    [id : NameableIds, text : Data, meta : {NoScope}, salience : {NoArg} \cup Importances]

\* getattr: reading an attribute the object does not have raises AttributeError.
HasAttr(rec, name) == name \in DOMAIN rec

\* rec.model_dump_json(): the record written out as a string.
ModelDumpJson(rec) == ToString(rec)

\* collection.upsert(ids=[rec.id], documents=[rec.text], metadatas=[rec.meta])
UpsertInCollection(s, rec) ==
    (rec.id :> [document |-> rec.text, metadata |-> rec.meta]) @@ s

\* INSERT OR REPLACE INTO memory_metadata VALUES (rec.id, salience or 0.0, 1, now)
MetaUpsert(m, rec) ==
    (rec.id :> [importance |-> IF rec.salience # NoArg THEN rec.salience ELSE 0,
                access_count |-> 1,
                last_accessed_timestamp |-> clock]) @@ m

\* SQLiteProvider.upsert(rec).  The embedding call reads rec.text first; no
\* await in the method suspends, so the call is one step.
Upsert(t) ==
    /\ Begin(t)
    /\ \E rec \in MemRecords \cup UpsertRecords :
          IF HasAttr(rec, "text")
          THEN /\ store' = UpsertInCollection(store, rec)
               /\ meta' = MetaUpsert(meta, rec)
               /\ LogHistory(rec.id, "UPSERT", ModelDumpJson(rec))
               /\ Set(t, [Return EXCEPT !.op = "upsert", !.mid = rec.id, !.rec = rec])
          ELSE /\ Set(t, [Raise EXCEPT !.op = "upsert", !.mid = rec.id, !.rec = rec])
               /\ UNCHANGED <<store, meta, hist>>
    /\ UNCHANGED <<nextId, clock>>

\* SQLiteProvider.search(query, mem_types, k).  collection.query answers one
\* list per query embedding (Memory.search reads results["ids"][0][i]); the
\* loop of the provider takes results["metadatas"][i], a list, for the tags
\* of one record, and its .get raises AttributeError on the first turn.
ProviderSearch(t) ==
    /\ Begin(t)
    /\ Set(t, [Raise EXCEPT !.op = "provider_search"])
    /\ UNCHANGED <<store, meta, hist, nextId, clock>>

\* reset (of BaseMemory and of SQLiteProvider): delete_collection, DROP TABLE
\* of both tables, _create_tables.
\* A variant that drops the metadata table only; C32 tells it from Reset.
ResetKeepsHistory(t) ==
    /\ Begin(t)
    /\ store' = <<>>
    /\ meta' = <<>>
    /\ hist' = hist
    /\ Set(t, [Return EXCEPT !.op = "reset"])
    /\ UNCHANGED <<nextId, clock>>

Reset(t) ==
    /\ Begin(t)
    /\ store' = <<>>
    /\ meta' = <<>>
    /\ hist' = <<>>
    /\ Set(t, [Return EXCEPT !.op = "reset"])
    /\ UNCHANGED <<nextId, clock>>

\* ProviderSpec: the single caller of SeqSpec, who also calls the provider
\* opened on the same database and resets the stores.
NextProvider ==
    \/ NextSeq
    \/ \E t \in SoleCaller : Upsert(t) \/ ProviderSearch(t) \/ Reset(t)

ProviderSpec == Init /\ [][NextProvider]_vars

(***************************************************************************)
(* ReadersSpec: the callers of Threads read, concurrently, a store that    *)
(* holds one record, added and rated before.                               *)
(***************************************************************************)
InitStored ==
    /\ \E data \in Data :
          /\ store = (1 :> [document |-> data, metadata |-> NoScope])
          /\ hist = <<[memory_id |-> 1, action |-> "ADD", data |-> data, timestamp |-> 0]>>
    /\ \E importance \in Importances :
          meta = (1 :> [importance |-> importance, access_count |-> 1,
                        last_accessed_timestamp |-> 0])
    /\ nextId = 2
    /\ clock = 0
    /\ calls = 0
    /\ thr = [t \in Threads |-> IdleFrame]
    /\ pre = [store |-> <<>>, meta |-> <<>>, hist |-> <<>>, nextId |-> 1, clock |-> 0]

NextReaders ==
    \/ Tick
    \/ \E t \in Threads : GetFetch(t) \/ GetSelect(t) \/ GetWrite(t)

ReadersSpec == InitStored /\ [][NextReaders]_vars

(***************************************************************************)
(* Vocabulary of the properties.                                           *)
(***************************************************************************)
\* This step ends a call of caller t (a call may begin and end in one step).
Finishes(t) ==
    /\ thr'[t].pc = "idle"
    /\ \/ thr[t].pc # "idle"
       \/ calls' # calls /\ \A u \in Threads \ {t} : thr'[u] = thr[u]

\* The rows h1 holds beyond h0.
NewRows(h0, h1) == SubSeq(h1, Len(h0) + 1, Len(h1))

Count(rows, id, actions) ==
    Len(SelectSeq(rows, LAMBDA r : r.memory_id = id /\ r.action \in actions))

\* h1 is h0 with exactly one more row, of the given id, action and payload.
AppendsOne(h0, h1, id, action, data) ==
    /\ Len(h1) = Len(h0) + 1
    /\ SubSeq(h1, 1, Len(h0)) = h0
    /\ h1[Len(h1)].memory_id = id
    /\ h1[Len(h1)].action = action
    /\ h1[Len(h1)].data = data

\* The text of the decision begins with word ":".
HasPrefix(decision, word) ==
    Len(decision) >= 2 /\ decision[1] = word /\ decision[2] = ":"

\* Relative to the stores p, the collection s1 and the log h1 hold exactly one
\* more record, with a fresh id, the content and tags of frame f, and one more
\* row, the ADD of that record.
AddedAsNew(f, p, s1, h1) ==
    \E id \in DOMAIN s1 \ DOMAIN p.store :
        /\ id >= p.nextId
        /\ DOMAIN s1 = DOMAIN p.store \cup {id}
        /\ \A x \in DOMAIN p.store : s1[x] = p.store[x]
        /\ s1[id] = [document |-> f.data, metadata |-> f.scope]
        /\ AppendsOne(p.hist, h1, id, "ADD", f.data)

AllIds == 0 .. MaxCalls + 1

(***************************************************************************)
(* C1.  For every id, history(id) returns the entries of the id in the     *)
(* exact order in which the operations on the id were performed, also when *)
(* entries of the id carry the same timestamp.  (With a single caller the  *)
(* order of the operations is the order in which their rows were           *)
(* inserted.)                                                              *)
(***************************************************************************)
C1_HistoryInOperationOrder ==
    \A id \in AllIds : \A result \in history(id) : result = LogOf(id)

(***************************************************************************)
(* C2.  Every mutation of a record (insert, content replacement, removal)  *)
(* has produced exactly one history entry for its id, and no UPDATE,       *)
(* DELETE or DECAY entry is written by an operation that found no live     *)
(* record: when a call ends, the rows it appended match, id by id, what it *)
(* did to the record store.                                                *)
(***************************************************************************)
C2_OneEntryPerMutation ==
    [][\A t \in Threads : Finishes(t) =>
          LET new == NewRows(pre'.hist, hist')
              was == DOMAIN pre'.store
              now == DOMAIN store'
          IN \A id \in AllIds :
                /\ Count(new, id, {"ADD"}) = IF id \in now \ was THEN 1 ELSE 0
                /\ Count(new, id, {"DELETE", "DECAY"}) = IF id \in was \ now THEN 1 ELSE 0
                /\ Count(new, id, {"UPDATE"}) <= 1
                /\ Count(new, id, {"UPDATE"}) = 1 => id \in was
                /\ (id \in was \cap now /\ store'[id] # pre'.store[id])
                      => Count(new, id, {"UPDATE"}) = 1]_vars

(***************************************************************************)
(* C3.  When add(infer=True) receives the decision UPDATE:<id> and <id> is *)
(* not a live record, the call behaves as ADD: one new record with a fresh *)
(* id and the given content, exactly one ADD entry for it, no UPDATE entry.*)
(***************************************************************************)
C3_UpdateOfMissingIdAdds ==
    [][\A t \in Threads :
          (/\ Finishes(t)
           /\ thr[t].infer
           /\ HasPrefix(thr[t].decision, "UPDATE")
           /\ thr[t].decision[3] \notin DOMAIN pre.store
           /\ thr'[t].outcome = "ok")
          => AddedAsNew(thr[t], pre, store', hist')]_vars

(***************************************************************************)
(* C4.  delete(id), called directly or through the decision DELETE:<id>,   *)
(* is a no-op when id is not a live record: the record store is unchanged, *)
(* no history entry is appended for id, and no error is raised.            *)
(***************************************************************************)
IsDelete(f) == f.op = "delete" \/ (f.infer /\ HasPrefix(f.decision, "DELETE"))

DeleteTarget(f) == IF f.op = "delete" THEN f.mid ELSE f.decision[3]

C4_DeleteOfMissingIdIsNoOp ==
    [][\A t \in Threads :
          (/\ Finishes(t)
           /\ IsDelete(thr[t])
           /\ DeleteTarget(thr[t]) \notin DOMAIN pre.store)
          => /\ store' = pre.store
             /\ SelectRows(hist', DeleteTarget(thr[t]))
                   = SelectRows(pre.hist, DeleteTarget(thr[t]))
             /\ thr'[t].outcome = "ok"]_vars

(***************************************************************************)
(* C5.  Concurrent access-bumps of get(id) on the same id never lose an    *)
(* increment: every bump raises the stored access_count by one, so that N  *)
(* completed bumps leave it at its initial value plus N.                   *)
(***************************************************************************)
C5_NoLostIncrement ==
    [][\A t \in Threads :
          (At(t, "get_write") /\ thr'[t].pc = "idle" /\ thr[t].mid \in DOMAIN meta)
          => meta'[thr[t].mid].access_count = meta[thr[t].mid].access_count + 1]_vars

(***************************************************************************)
(* C6.  Under any interleaving of decay_memories with an update of the     *)
(* same id there is no torn state: no UPDATE entry is appended for an id   *)
(* that a sweep running at the same time took into its snapshot and that   *)
(* is no longer in the record store.                                       *)
(***************************************************************************)
C6_NoTornUpdate ==
    [][\A t \in Threads :
          (At(t, "update_log") /\ thr'[t].pc = "idle")
          => ~ \E u \in Threads \ {t} :
                  /\ thr[u].op = "decay"
                  /\ thr[t].mid \in Range(thr[u].snap)
                  /\ thr[t].mid \notin DOMAIN store]_vars

Unrecognised(decision) ==
    /\ decision # <<>>
    /\ decision # <<"ADD">>
    /\ ~HasPrefix(decision, "UPDATE")
    /\ ~HasPrefix(decision, "DELETE")

\* What _add_memory(f.data, f.scope) leaves, started on the stores p.
AddOutcome(f, p, outcome) ==
    \/ /\ outcome = "ok"
       /\ AddedAsNew(f, p, store', hist')
       /\ nextId' = p.nextId + 1
       /\ \E id \in DOMAIN store' \ DOMAIN p.store :
             /\ DOMAIN meta' = DOMAIN p.meta \cup {id}
             /\ \A x \in DOMAIN p.meta \ {id} : meta'[x] = p.meta[x]
             /\ meta'[id].access_count = 1
             /\ meta'[id].importance \in Importances
    \/ /\ outcome = "raised"
       /\ meta' = p.meta
       /\ \/ store' = p.store /\ hist' = p.hist /\ nextId' = p.nextId
          \/ AddedAsNew(f, p, store', hist') /\ nextId' = p.nextId + 1

C8_UnrecognisedDecisionAdds ==
    [][\A t \in Threads :
          (/\ Finishes(t)
           /\ thr[t].infer
           /\ thr[t].decision = <<"ADD">> \/ Unrecognised(thr[t].decision))
          => AddOutcome(thr[t], pre, thr'[t].outcome)]_vars

\* An add under an unrecognised decision has inserted its record and logged the
\* ADD, next to records that were there before.
C8_Witness ==
    \E t \in Threads :
        /\ At(t, "add_meta")
        /\ thr[t].infer
        /\ Unrecognised(thr[t].decision)
        /\ AddedAsNew(thr[t], pre, store, hist)
        /\ pre.store # <<>>

(***************************************************************************)
(* C9.  When record A is live and add(data, infer=True) receives the       *)
(* decision UPDATE:<A.id>, the content of A is replaced by data under the  *)
(* same id, no record is created, and exactly one UPDATE entry with        *)
(* payload data is appended for A.id, so that a record inserted once and   *)
(* updated once has the history [ADD, UPDATE].                             *)
(***************************************************************************)
UpdatesLive(t) ==
    /\ Finishes(t)
    /\ thr[t].infer
    /\ HasPrefix(thr[t].decision, "UPDATE")
    /\ thr[t].decision[3] \in DOMAIN pre.store
    /\ thr'[t].outcome = "ok"

OnlyAddLogged(rows, id) ==
    Len(LogIn(rows, id)) = 1 /\ LogIn(rows, id)[1][1] = "ADD"

\* The part of C9 on the record store and on the rows of the log.
ReplacedAndLogged(t) ==
    LET a == thr[t].decision[3]
    IN /\ DOMAIN store' = DOMAIN pre.store
       /\ nextId' = pre.nextId
       /\ store'[a] = [pre.store[a] EXCEPT !.document = thr[t].data]
       /\ \A x \in DOMAIN pre.store \ {a} : store'[x] = pre.store[x]
       /\ AppendsOne(pre.hist, hist', a, "UPDATE", thr[t].data)
       /\ \A result \in HistoryIn(hist', a) : Len(result) = Len(LogIn(pre.hist, a)) + 1

C9_UpdateDecisionReplaces ==
    [][\A t \in Threads :
          UpdatesLive(t)
          => /\ ReplacedAndLogged(t)
             /\ OnlyAddLogged(pre.hist, thr[t].decision[3])
                   => \A result \in HistoryIn(hist', thr[t].decision[3]) :
                         /\ Len(result) = 2
                         /\ result[1][1] = "ADD"
                         /\ result[2][1] = "UPDATE"
                         /\ result[2][2] = thr[t].data]_vars

\* C9 apart from the order in which history() returns entries of one timestamp:
\* the record is replaced in place, one UPDATE row is appended after the rows
\* the id had, and history() returns one entry more than before.
C9_ApartFromTies ==
    [][\A t \in Threads :
          UpdatesLive(t)
          => /\ ReplacedAndLogged(t)
             /\ OnlyAddLogged(pre.hist, thr[t].decision[3])
                   => /\ Len(LogIn(hist', thr[t].decision[3])) = 2
                      /\ LogIn(hist', thr[t].decision[3])[1][1] = "ADD"
                      /\ LogIn(hist', thr[t].decision[3])[2][1] = "UPDATE"]_vars

(***************************************************************************)
(* C10.  When id is live, delete(id), called directly or through the       *)
(* decision DELETE:<id>, removes the record, so that no search and no      *)
(* get_all returns it, and appends exactly one DELETE entry with empty     *)
(* payload, which is the last entry of history(id); a record inserted once *)
(* and then deleted has the history [ADD, DELETE].                         *)
(***************************************************************************)
DeletesLive(t) ==
    /\ Finishes(t)
    /\ IsDelete(thr[t])
    /\ DeleteTarget(thr[t]) \in DOMAIN pre.store

\* The part of C10 on the record store and on the rows of the log.
RemovedAndLogged(t) ==
    LET id == DeleteTarget(thr[t])
    IN /\ DOMAIN store' = DOMAIN pre.store \ {id}
       /\ \A x \in DOMAIN store' : store'[x] = pre.store[x]
       /\ \A where \in Scopes :
             /\ id \notin GetAllIds(store', where)
             /\ \A q \in Queries \cup Data : id \notin Range(SearchIn(store', q, where))
       /\ AppendsOne(pre.hist, hist', id, "DELETE", "")
       /\ thr'[t].outcome = "ok"
       /\ \A result \in HistoryIn(hist', id) : Len(result) = Len(LogIn(pre.hist, id)) + 1

C10_DeleteRemoves ==
    [][\A t \in Threads :
          DeletesLive(t)
          => /\ RemovedAndLogged(t)
             /\ \A result \in HistoryIn(hist', DeleteTarget(thr[t])) :
                   /\ result[Len(result)][1] = "DELETE"
                   /\ result[Len(result)][2] = ""
                   /\ OnlyAddLogged(pre.hist, DeleteTarget(thr[t]))
                         => Len(result) = 2 /\ result[1][1] = "ADD"]_vars

\* C10 apart from the order in which history() returns entries of one
\* timestamp: the record is removed and one DELETE row with empty payload is
\* appended after the rows the id had.
C10_ApartFromTies ==
    [][\A t \in Threads : DeletesLive(t) => RemovedAndLogged(t)]_vars

(***************************************************************************)
(* Vocabulary of the properties on strength and decay.  The strength of a  *)
(* record is importance * (1 + access_count) / (1 + recency), and 0 for a  *)
(* record without metadata; importance and threshold are in tenths.        *)
(***************************************************************************)
\* By the metadata m at the time now, id is strictly weaker than threshold.
Weaker(m, now, id, threshold) ==
    IF id \in DOMAIN m
    THEN m[id].importance * (1 + m[id].access_count)
            < threshold * (1 + (now - m[id].last_accessed_timestamp))
    ELSE 0 < threshold

\* This step ends a sweep of decay_memories that returns normally.
SweepEnds(t) == Finishes(t) /\ thr[t].op = "decay" /\ thr'[t].outcome = "ok"

(***************************************************************************)
(* C11.  decay_memories(threshold) considers every live record of the      *)
(* whole store, whatever its scope tags; when it has completed, every      *)
(* record that was live at the start with a strength strictly below the    *)
(* threshold is removed and has exactly one new DECAY entry with empty     *)
(* payload, and every record whose strength is at or above the threshold   *)
(* is still live, with its content unchanged and no new history entry.     *)
(* (The strength of a record falls while the sweep runs: a record below    *)
(* the threshold at the start is removed, one at or above it at the end    *)
(* is kept.)                                                               *)
(***************************************************************************)
C11_DecaySweepsWholeStore ==
    [][\A t \in Threads :
          SweepEnds(t)
          => LET new == NewRows(pre.hist, hist')
                 removed == DOMAIN pre.store \ DOMAIN store'
             IN /\ Range(thr[t].snap) = DOMAIN pre.store
                /\ DOMAIN store' \subseteq DOMAIN pre.store
                /\ \A id \in DOMAIN pre.store :
                      /\ Weaker(pre.meta, pre.clock, id, thr[t].threshold)
                            => id \in removed
                      /\ ~Weaker(meta', clock', id, thr[t].threshold)
                            => id \notin removed
                      /\ id \in removed => Count(new, id, {"DECAY"}) = 1
                      /\ id \notin removed
                            => /\ store'[id] = pre.store[id]
                               /\ Count(new, id, {"ADD", "UPDATE", "DELETE", "DECAY"}) = 0
                /\ \A i \in DOMAIN new :
                      /\ new[i].action = "DECAY"
                      /\ new[i].data = ""
                      /\ new[i].memory_id \in removed]_vars

\* A sweep has returned that removed a record and kept a record of another
\* scope, and logged one DECAY.
C11_Witness ==
    /\ \A t \in SoleCaller : thr[t].pc = "idle" /\ thr[t].outcome = "ok"
    /\ Len(hist) = Len(pre.hist) + 1
    /\ hist[Len(hist)].action = "DECAY"
    /\ \E a \in DOMAIN pre.store \ DOMAIN store, b \in DOMAIN store :
          /\ hist[Len(hist)].memory_id = a
          /\ store[b].metadata # pre.store[a].metadata
          /\ b \in DOMAIN meta

(***************************************************************************)
(* C12.  decay_memories(0) removes no record and appends no history entry  *)
(* whenever every live record has metadata with positive importance; a     *)
(* sweep whose threshold is above the strength of every live record        *)
(* removes every live record.                                              *)
(***************************************************************************)
AllRatedPositive(p) ==
    \A id \in DOMAIN p.store : id \in DOMAIN p.meta /\ p.meta[id].importance > 0

AllWeaker(p, threshold) ==
    \A id \in DOMAIN p.store : Weaker(p.meta, p.clock, id, threshold)

C12_DecayExtremes ==
    [][\A t \in Threads :
          SweepEnds(t)
          => /\ (thr[t].threshold = 0 /\ AllRatedPositive(pre))
                   => store' = pre.store /\ hist' = pre.hist
             /\ AllWeaker(pre, thr[t].threshold) => DOMAIN store' = {}]_vars

\* A sweep has returned that found two rated records, of positive importance,
\* all weaker than its threshold, and removed them.
C12_Witness ==
    /\ \A t \in SoleCaller : thr[t].pc = "idle" /\ thr[t].outcome = "ok"
    /\ Cardinality(DOMAIN pre.store) = 2
    /\ AllRatedPositive(pre)
    /\ DOMAIN store = {}
    /\ Len(hist) = Len(pre.hist) + 2
    /\ hist[Len(hist)].action = "DECAY"

\* A sweep of threshold 0 is at the last record of a store whose records are
\* all rated with positive importance.
C12_WitnessZero ==
    \E t \in Threads :
        /\ At(t, "decay_check")
        /\ thr[t].threshold = 0
        /\ thr[t].idx = Len(thr[t].snap)
        /\ Len(thr[t].snap) = 2
        /\ AllRatedPositive(pre)

(***************************************************************************)
(* C13.  If the store delete or the history append of a sweep fails for    *)
(* one record, the sweep still processes every remaining record of its     *)
(* snapshot: when decay_memories ends, each record of the snapshot after   *)
(* the current one that is below the threshold is removed and logged.      *)
(***************************************************************************)
C13_SweepContinuesAfterFailure ==
    [][\A t \in Threads :
          (Finishes(t) /\ thr[t].op = "decay")
          => \A j \in (thr[t].idx + 1) .. Len(thr[t].snap) :
                Weaker(pre.meta, pre.clock, thr[t].snap[j], thr[t].threshold)
                => /\ thr[t].snap[j] \notin DOMAIN store'
                   /\ Count(NewRows(pre.hist, hist'), thr[t].snap[j], {"DECAY"}) = 1]_vars

(***************************************************************************)
(* C14.  If an embedding or LLM call fails at any point during add,        *)
(* nothing is left half-written: when the call has ended, for the id it    *)
(* was creating either the record, its metadata entry and its ADD entry    *)
(* all exist, or none of them exists.                                      *)
(***************************************************************************)
C14_AddIsAllOrNothing ==
    [][\A t \in Threads :
          (Finishes(t) /\ thr[t].op = "add")
          => \A id \in pre.nextId .. (nextId' - 1) :
                \/ /\ id \in DOMAIN store'
                   /\ id \in DOMAIN meta'
                   /\ Count(hist', id, {"ADD"}) = 1
                \/ /\ id \notin DOMAIN store'
                   /\ id \notin DOMAIN meta'
                   /\ Count(hist', id, {"ADD"}) = 0]_vars

(***************************************************************************)
(* C15.  If the store mutation of add, update or delete succeeds and the   *)
(* paired history append then fails, the call ends in an error visible to  *)
(* the caller: a call that has passed its store mutation returns normally  *)
(* only with its history entry appended, in each of the three branches.    *)
(***************************************************************************)
C15_HistoryFailureIsReported ==
    [][\A t \in Threads :
          (Finishes(t) /\ thr'[t].outcome = "ok")
          => /\ thr[t].pc \in {"add_log", "add_meta"}
                   => AppendsOne(pre.hist, hist', thr[t].mid, "ADD", thr[t].data)
             /\ thr[t].pc = "update_log"
                   => AppendsOne(pre.hist, hist', thr[t].mid, "UPDATE", thr[t].data)
             /\ thr[t].pc = "delete_log"
                   => AppendsOne(pre.hist, hist', thr[t].mid, "DELETE", "")]_vars

\* An add has ended in an error with its record inserted and no entry appended.
C15_Witness ==
    /\ \A t \in SoleCaller : thr[t].pc = "idle" /\ thr[t].outcome = "raised"
    /\ hist = pre.hist
    /\ \E id \in DOMAIN store \ DOMAIN pre.store : id \notin DOMAIN meta
    /\ pre.store # <<>>

(***************************************************************************)
(* C16.  decay_memories, delete and delete_all leave the metadata store    *)
(* unchanged: they create, modify and remove no metadata entry, so the     *)
(* metadata of a removed record stays as an orphaned entry with its        *)
(* importance, access_count and last-accessed timestamp.                   *)
(***************************************************************************)
C16_RemovalKeepsMetadata ==
    [][/\ (DOMAIN store' # DOMAIN store /\ DOMAIN store' \subseteq DOMAIN store)
             => meta' = meta
       /\ \A t \in Threads :
             (Finishes(t) /\ (thr[t].op = "decay" \/ IsDelete(thr[t])))
             => /\ meta' = pre.meta
                /\ \A id \in (DOMAIN pre.store \ DOMAIN store') \cap DOMAIN pre.meta :
                      id \in DOMAIN meta' /\ meta'[id] = pre.meta[id]]_vars

\* A delete_all has returned that removed a record whose metadata, with an
\* access_count raised by a get, is still there.
C16_Witness ==
    /\ \A t \in SoleCaller : thr[t].pc = "idle" /\ thr[t].outcome = "ok"
    /\ hist = pre.hist
    /\ meta = pre.meta
    /\ \E id \in DOMAIN pre.store \ DOMAIN store :
          id \in DOMAIN meta /\ meta[id].access_count = 2

(***************************************************************************)
(* C17.  calculate_strength(id) is exactly 0, and raises no error, for     *)
(* every id that has no metadata entry, and is exactly 0 when the stored   *)
(* importance is 0, whatever access_count and recency are.                 *)
(***************************************************************************)
C17_StrengthZero ==
    /\ \A id \in AllIds :
          /\ StrengthDen(id) > 0
          /\ id \notin DOMAIN meta => StrengthNum(id) = 0
          /\ (id \in DOMAIN meta /\ meta[id].importance = 0) => StrengthNum(id) = 0
    /\ \A a \in 0 .. MaxAccess, r \in 0 .. MaxRecency :
          StrengthNumOf(0, a) = 0 /\ StrengthDenOf(r) > 0

\* A live record has no metadata entry, and a record of importance 0 has been
\* read and was last accessed some time ago.
C17_Witness ==
    /\ \E id \in LiveIds : id \notin DOMAIN meta
    /\ \E id \in DOMAIN meta :
          /\ meta[id].importance = 0
          /\ meta[id].access_count > 1
          /\ clock > meta[id].last_accessed_timestamp

(***************************************************************************)
(* C18.  The strength importance * (1 + access_count) / (1 + recency) is,  *)
(* over bounded non-negative inputs with positive importance, strictly     *)
(* increasing in access_count (5 gives more than 3), strictly increasing   *)
(* in importance and strictly decreasing in recency.                       *)
(***************************************************************************)
C18_StrengthMonotone ==
    \A x \in DOMAIN meta, y \in DOMAIN meta :
        LET mx == meta[x]
            my == meta[y]
            stronger == StrengthNum(x) * StrengthDen(y) > StrengthNum(y) * StrengthDen(x)
        IN /\ (/\ mx.importance = my.importance /\ mx.importance > 0
               /\ mx.last_accessed_timestamp = my.last_accessed_timestamp
               /\ mx.access_count > my.access_count) => stronger
           /\ (/\ mx.access_count = my.access_count
               /\ mx.last_accessed_timestamp = my.last_accessed_timestamp
               /\ mx.importance > my.importance) => stronger
           /\ (/\ mx.importance = my.importance /\ mx.importance > 0
               /\ mx.access_count = my.access_count
               /\ mx.last_accessed_timestamp > my.last_accessed_timestamp) => stronger

\* A sweep computes the strength of two records that differ only in their
\* access counts, 5 and 3, and were last accessed some time ago.
C18_Witness ==
    /\ \E t \in Threads : At(t, "decay_check")
    /\ \E x \in DOMAIN meta, y \in DOMAIN meta :
          /\ meta[x].importance = meta[y].importance
          /\ meta[x].importance > 0
          /\ meta[x].last_accessed_timestamp = meta[y].last_accessed_timestamp
          /\ meta[x].access_count = 5
          /\ meta[y].access_count = 3
          /\ clock > meta[x].last_accessed_timestamp

(***************************************************************************)
(* C19.  A single get(id) on a live record that has a metadata entry       *)
(* raises access_count by exactly 1, sets the last-accessed timestamp to   *)
(* the current time, leaves importance unchanged and returns the record;   *)
(* it changes neither the record store nor the history log.                *)
(***************************************************************************)
C19_GetBumpsAccess ==
    [][\A t \in Threads :
          (/\ Finishes(t)
           /\ thr[t].op = "get"
           /\ thr[t].mid \in DOMAIN pre.store
           /\ thr[t].mid \in DOMAIN pre.meta)
          => LET id == thr[t].mid
             IN /\ thr'[t].outcome = "ok"
                /\ thr[t].result = [id |-> id, document |-> pre.store[id].document,
                                    metadata |-> pre.store[id].metadata]
                /\ DOMAIN meta' = DOMAIN pre.meta
                /\ meta'[id].access_count = pre.meta[id].access_count + 1
                /\ meta'[id].last_accessed_timestamp = clock'
                /\ meta'[id].importance = pre.meta[id].importance
                /\ \A x \in DOMAIN pre.meta \ {id} : meta'[x] = pre.meta[x]
                /\ store' = pre.store
                /\ hist' = pre.hist
                /\ nextId' = pre.nextId]_vars

\* A get has returned that read a record rated some time before: the count is
\* 2 and the timestamp is the current time, later than that of the ADD.
C19_Witness ==
    /\ \A t \in SoleCaller : thr[t].pc = "idle" /\ thr[t].outcome = "ok"
    /\ store = pre.store /\ hist = pre.hist
    /\ \E id \in DOMAIN store \cap DOMAIN pre.meta :
          /\ meta[id].access_count = pre.meta[id].access_count + 1
          /\ meta[id].last_accessed_timestamp = clock
          /\ pre.meta[id].last_accessed_timestamp < clock
          /\ meta[id].importance > 0

(***************************************************************************)
(* C20.  When the access-bump of get(id) is applied to a live record that  *)
(* has no metadata entry, it does not fail and it creates a metadata entry *)
(* for id with access_count = 1.                                           *)
(***************************************************************************)
C20_GetCreatesMetadata ==
    [][\A t \in Threads :
          (/\ Finishes(t)
           /\ thr[t].op = "get"
           /\ thr[t].mid \in DOMAIN pre.store
           /\ thr[t].mid \notin DOMAIN pre.meta)
          => /\ thr'[t].outcome = "ok"
             /\ thr[t].mid \in DOMAIN meta'
             /\ meta'[thr[t].mid].access_count = 1]_vars

(***************************************************************************)
(* C21.  Setting the importance of an id, through _update_metadata(id,     *)
(* importance=v) or through SQLiteProvider.upsert, sets access_count to 1  *)
(* only when the metadata entry of the id is newly created; when the id    *)
(* has an entry already, importance becomes v and access_count keeps its   *)
(* previous value.                                                         *)
(***************************************************************************)
\* The step in which caller t sets an importance: the rating step of
\* _add_memory, or an upsert that returns.
RatesByAdd(t) == thr[t].pc = "add_meta" /\ thr'[t].outcome = "ok"

RatesByUpsert(t) == thr'[t].op = "upsert" /\ thr'[t].outcome = "ok"

C21_ImportanceKeepsAccessCount ==
    [][\A t \in Threads :
          (Finishes(t) /\ (RatesByAdd(t) \/ RatesByUpsert(t)))
          => LET id == IF RatesByAdd(t) THEN thr[t].mid ELSE thr'[t].mid
             IN /\ id \in DOMAIN meta'
                /\ RatesByAdd(t) => meta'[id].importance \in Importances
                /\ RatesByUpsert(t) =>
                      meta'[id].importance = IF thr'[t].rec.salience = NoArg THEN 0
                                             ELSE thr'[t].rec.salience
                /\ id \notin DOMAIN meta => meta'[id].access_count = 1
                /\ id \in DOMAIN meta =>
                      meta'[id].access_count = meta[id].access_count]_vars

(***************************************************************************)
(* C22.  In every reachable state every metadata entry has access_count    *)
(* >= 0, and across every sequence of operations between two resets the    *)
(* last-accessed timestamp of an id never moves backward and its           *)
(* access_count never decreases.                                           *)
(***************************************************************************)
C22_AccessNeverDecreases ==
    [][/\ \A id \in DOMAIN meta' : meta'[id].access_count >= 0
       /\ (\A t \in Threads : ~(Finishes(t) /\ thr'[t].op = "reset"))
             => \A id \in DOMAIN meta :
                   /\ id \in DOMAIN meta'
                   /\ meta'[id].last_accessed_timestamp >= meta[id].last_accessed_timestamp
                   /\ meta'[id].access_count >= meta[id].access_count]_vars

(***************************************************************************)
(* C23.  In every state reached by completed operations each live record   *)
(* has exactly one metadata entry (the table is keyed by the id), and a    *)
(* metadata entry whose record is not live is never surfaced as live: a    *)
(* get of its id goes no further than the record store and does not bump   *)
(* it, and get_all, search and the decay sweep never include the id.       *)
(* Stated for one caller: a call that starts where every live record has   *)
(* its entry and returns, ends where every live record has its entry.      *)
(***************************************************************************)
\* Every record of the collection s has a row in the metadata table m.
Paired(s, m) == DOMAIN s \subseteq DOMAIN m

\* The metadata entries of m whose record the collection s does not hold.
Orphans(s, m) == DOMAIN m \ DOMAIN s

IdsOf(records) == {records[i].id : i \in DOMAIN records}

UsedIds(p) == DOMAIN p.store \cup DOMAIN p.meta \cup {p.hist[i].memory_id : i \in DOMAIN p.hist}

\* The id has a removal in the log h.
Removed(h, id) == Count(h, id, {"DELETE", "DECAY"}) > 0

C24_IdsAreNeverReused ==
    [][/\ \A id \in DOMAIN store' \ DOMAIN store :
             /\ id \notin UsedIds(Snapshot)
             /\ ~Removed(hist, id)
       /\ \A t \in Threads :
             (Finishes(t) /\ thr[t].op = "update" /\ thr[t].mid \notin DOMAIN pre.store)
             => thr[t].mid \notin DOMAIN store']_vars

(***************************************************************************)
(* C25.  In every reachable state every history entry has an action in     *)
(* {ADD, UPDATE, DELETE, DECAY}; the payload is the new content for ADD    *)
(* and UPDATE entries and the empty string for DELETE and DECAY entries.   *)
(***************************************************************************)
\* The row is one of the four kinds, with the payload of its kind.
WellFormedRow(row) ==
    \/ row.action \in {"ADD", "UPDATE"} /\ row.data \in Data
    \/ row.action \in {"DELETE", "DECAY"} /\ row.data = ""

C25_HistoryActions ==
    \A i \in DOMAIN hist : WellFormedRow(hist[i])

\* The part of C25 that holds: the entries written by the methods of Memory
\* are of the four kinds, and the payload of an ADD or UPDATE is the content
\* the call was given.
C25_EntriesOfMemory ==
    [][hist' # hist
          => /\ Len(hist') = Len(hist) + 1
             /\ WellFormedRow(hist'[Len(hist')])
             /\ hist'[Len(hist')].action \in {"ADD", "UPDATE"}
                   => \E t \in Threads : hist'[Len(hist')].data = thr[t].data]_vars

(***************************************************************************)
(* C26.  Each SQLiteProvider.upsert(rec) call appends exactly one history  *)
(* entry for rec.id with action UPSERT (a first upsert gives a history of  *)
(* length 1), makes the record retrievable by search with the same id and  *)
(* text, and writes metadata such that calculate_strength(rec.id) > 0      *)
(* whenever the salience of rec is positive.                               *)
(***************************************************************************)
C26_UpsertLogsAndStores ==
    [][\A t \in Threads :
          /\ (Finishes(t) /\ thr'[t].op = "upsert")
             => LET rec == thr'[t].rec
                IN /\ thr'[t].outcome = "ok"
                   /\ Len(hist') = Len(hist) + 1
                   /\ SubSeq(hist', 1, Len(hist)) = hist
                   /\ hist'[Len(hist')].memory_id = rec.id
                   /\ hist'[Len(hist')].action = "UPSERT"
                   /\ Count(hist, rec.id, {"UPSERT"}) = 0
                         => Len(SelectRows(hist', rec.id)) = 1 + Len(SelectRows(hist, rec.id))
                   /\ rec.id \in DOMAIN store'
                   /\ HasAttr(rec, "text") => store'[rec.id].document = rec.text
                   /\ (HasAttr(rec, "salience") /\ rec.salience > 0)
                         => StrengthNumIn(meta', rec.id) > 0
          /\ (Finishes(t) /\ thr'[t].op = "provider_search")
             => thr'[t].outcome = "ok"]_vars

\* The part of C26 that holds: an upsert that returns has appended one UPSERT
\* entry for rec.id, stored the text under the id and written metadata whose
\* strength is positive when the salience is.
C26_ReturnedUpsert ==
    [][\A t \in Threads :
          (Finishes(t) /\ thr'[t].op = "upsert" /\ thr'[t].outcome = "ok")
          => LET rec == thr'[t].rec
             IN /\ Len(hist') = Len(hist) + 1
                /\ SubSeq(hist', 1, Len(hist)) = hist
                /\ hist'[Len(hist')].memory_id = rec.id
                /\ hist'[Len(hist')].action = "UPSERT"
                /\ store'[rec.id].document = rec.text
                /\ rec.salience > 0
                      => /\ StrengthNumIn(meta', rec.id) > 0
                         /\ StrengthDenIn(meta', clock', rec.id) > 0]_vars

(***************************************************************************)
(* C27.  When the fact extraction of add(infer=True) yields nothing (an    *)
(* empty extraction response), no related-record search and no decision    *)
(* call is made, and the operation performs ADD directly.                  *)
(***************************************************************************)
\* "".strip().split(", "): the fact list of an empty response.
NoFacts == <<"">>

C27_EmptyExtractionAdds ==
    [][\A t \in Threads :
          /\ thr'[t].facts = NoFacts
                => thr'[t].pc \notin {"infer_search", "infer_decide"}
          /\ (thr[t].facts = NoFacts /\ thr'[t].facts # NoFacts /\ thr'[t].pc # "idle")
                => thr'[t].pc = "add_insert"]_vars

(***************************************************************************)
(* C28.  The related-record set shown to the decision capability contains  *)
(* each record id at most once, for any number of facts and any overlap of *)
(* their search results, and its order is the order in which the ids were  *)
(* first seen across the per-fact searches.                                *)
(***************************************************************************)
\* The place where id occurs first in the sequence ids.
FirstPlace(ids, id) == CHOOSE i \in DOMAIN ids : ids[i] = id /\ \A j \in 1 .. i - 1 : ids[j] # id

C28_RelatedAreUnique ==
    \A t \in Threads :
        At(t, "infer_decide")
        => LET found == thr[t].related
               shown == UniqueRelated(t)
           IN /\ Range(shown) = Range(found)
              /\ \A i, j \in DOMAIN shown : i # j => shown[i] # shown[j]
              /\ \A i, j \in DOMAIN shown :
                    i < j => FirstPlace(found, shown[i]) < FirstPlace(found, shown[j])

\* The decision prompt is about to be built from the results of two facts
\* that overlap: an id found by both searches, and another id found after it.
C28_Witness ==
    \E t \in Threads :
        /\ At(t, "infer_decide")
        /\ Len(thr[t].related) > Len(UniqueRelated(t))
        /\ Len(UniqueRelated(t)) >= 2
        /\ thr[t].related[1] = thr[t].related[Len(thr[t].related)]

(***************************************************************************)
(* C29.  If the fact-extraction capability call fails during               *)
(* add(infer=True), the operation does not abort: it proceeds with the     *)
(* whole content as the single fact, continues to the search and decision  *)
(* steps, and applies exactly one of the ADD / UPDATE / DELETE effects.    *)
(***************************************************************************)
\* In this step a call of caller t meets a failure of the fact extraction.
ExtractionFailure(t) ==
    /\ calls' # calls
    /\ thr'[t].fault = "extraction"
    /\ \A u \in Threads \ {t} : thr'[u] = thr[u]

C29_ExtractionFailureFallsBack ==
    [][\A t \in Threads :
          ExtractionFailure(t)
          => /\ thr'[t].outcome # "raised"
             /\ thr'[t].pc = "infer_search"
             /\ thr'[t].facts = <<thr'[t].data>>]_vars

(***************************************************************************)
(* C30.  The history log is append-only: apart from reset, no operation    *)
(* (add, update, delete, delete_all, get, decay) removes, reorders or      *)
(* changes an existing history entry, so the stored history of an id       *)
(* before an operation is always a prefix of its stored history after it;  *)
(* appending never checks that the record id is live, and history(id) of   *)
(* an id with no entries is the empty sequence, not an error.  (The order  *)
(* in which history(id) returns entries of equal timestamps is C1's.)      *)
(***************************************************************************)
\* The sequence a is the beginning of the sequence b.
IsPrefix(a, b) == Len(a) <= Len(b) /\ SubSeq(b, 1, Len(a)) = a

\* This step ends a reset.
Resets == \E t \in Threads : Finishes(t) /\ thr'[t].op = "reset"

C30_HistoryIsAppendOnly ==
    [][/\ ~Resets
          => /\ IsPrefix(hist, hist')
             /\ \A id \in AllIds : IsPrefix(LogIn(hist, id), LogIn(hist', id))
       /\ \A t \in Threads :
             (/\ Finishes(t)
              /\ thr[t].pc \in {"update_log", "delete_log"}
              /\ thr'[t].outcome = "ok")
             => /\ Len(hist') = Len(hist) + 1
                /\ hist'[Len(hist')].memory_id = thr[t].mid
       /\ \A id \in AllIds :
             Count(hist', id, {"ADD", "UPDATE", "DELETE", "DECAY", "UPSERT"}) = 0
             => HistoryIn(hist', id) = {<<>>}]_vars

\* An update of an id whose record was removed before has returned: the log
\* holds the entries it held, and after them the UPDATE of the id that is not
\* live; another id has no entry at all.
C30_Witness ==
    /\ \A t \in SoleCaller : thr[t].pc = "idle" /\ thr[t].outcome = "ok"
    /\ Len(hist) = Len(pre.hist) + 1
    /\ IsPrefix(pre.hist, hist)
    /\ LET last == hist[Len(hist)]
       IN /\ last.action = "UPDATE"
          /\ last.memory_id \notin DOMAIN store
          /\ Removed(pre.hist, last.memory_id)
          /\ Count(pre.hist, last.memory_id, {"ADD"}) = 1
    /\ \E id \in AllIds : HistoryIn(hist, id) = {<<>>}

(***************************************************************************)
(* ScopeSpec: a single caller lists, searches and deletes by every scope   *)
(* filter, in a store of two records that were added with a combination of *)
(* scope tags each (add(data, user_id, agent_id, run_id, infer=False)).    *)
(***************************************************************************)
TagScopes == [user_id : {NoneVal, "u1"}, agent_id : {NoneVal, "a1"}, run_id : {NoneVal, "r1"}]

InitTagged ==
    /\ \E docs \in [{1, 2} -> Data], tags \in [{1, 2} -> TagScopes] :
          /\ store = [id \in {1, 2} |-> [document |-> docs[id], metadata |-> tags[id]]]
          /\ hist = [id \in {1, 2} |->
                        [memory_id |-> id, action |-> "ADD", data |-> docs[id],
                         timestamp |-> 0]]
    /\ meta = [id \in {1, 2} |->
                  [importance |-> 5, access_count |-> 1, last_accessed_timestamp |-> 0]]
    /\ nextId = 3
    /\ clock = 0
    /\ calls = 0
    /\ thr = [t \in Threads |-> IdleFrame]
    /\ pre = [store |-> <<>>, meta |-> <<>>, hist |-> <<>>, nextId |-> 1, clock |-> 0]

\* Memory.get_all: the ids of the records it returns, in the frame.
GetAll(t) ==
    /\ Begin(t)
    /\ \E scope \in TagScopes, release \in ChromaReleases :
          Set(t, IF WhereAccepted(release, scope)
                 THEN [Return EXCEPT !.op = "get_all", !.scope = scope,
                                     !.listed = SetToSeqById(GetAllIds(store, scope))]
                 ELSE [Raise EXCEPT !.op = "get_all", !.scope = scope])
    /\ UNCHANGED <<store, meta, hist, nextId, clock>>

\* Memory.search: the ids of the records it returns, in the frame.
Search(t) ==
    /\ Begin(t)
    /\ \E q \in Queries, scope \in TagScopes, release \in ChromaReleases :
          Set(t, IF WhereAccepted(release, scope)
                 THEN [Return EXCEPT !.op = "search", !.data = q, !.scope = scope,
                                     !.listed = search(q, scope)]
                 ELSE [Raise EXCEPT !.op = "search", !.data = q, !.scope = scope])
    /\ UNCHANGED <<store, meta, hist, nextId, clock>>

NextScope ==
    \E t \in SoleCaller :
        GetAll(t) \/ Search(t) \/ DeleteAll(t, TagScopes) \/ FirstCallFails(t)

ScopeSpec == InitTagged /\ [][NextScope]_vars

\* The records of s whose tags equal every field given in the filter.
Selected(s, scope) ==
    {id \in DOMAIN s :
        \A k \in ScopeFields : scope[k] # NoneVal => s[id].metadata[k] = scope[k]}

\* The ones of them that lie within the distance cut-off of the query.
Near(s, q, ids) == {id \in ids : Distance(q, s[id].document) < DistanceThreshold}

ScopedCall(f) == f.op \in {"get_all", "search", "delete_all"}

\* What a scoped call that returned has selected.
SelectsByScope(f, s0, s1) ==
    LET chosen == Selected(s0, f.scope)
    IN /\ f.op = "get_all" => Range(f.listed) = chosen
       /\ f.op = "search" => Range(f.listed) = Near(s0, f.data, chosen)
       /\ f.op = "delete_all" =>
             /\ DOMAIN s1 = DOMAIN s0 \ chosen
             /\ \A id \in DOMAIN s1 : s1[id] = s0[id]
       /\ f.op # "delete_all" => s1 = s0

(***************************************************************************)
(* C31.  For every scope filter over user_id, agent_id and run_id, search, *)
(* get_all and delete_all succeed and select the same records: the ones    *)
(* whose tags equal every field given in the filter, absent fields         *)
(* matching anything (search: the ones of them within the distance         *)
(* cut-off, there being fewer than n_results records).  delete_all(scope)  *)
(* removes exactly the records get_all(scope) returns and leaves the       *)
(* others as they were, and the empty filter selects every record in all   *)
(* three operations.                                                       *)
(***************************************************************************)
C31_ScopeFiltersAgree ==
    [][\A t \in SoleCaller :
          (Finishes(t) /\ ScopedCall(thr'[t]))
          => /\ thr'[t].outcome = "ok"
             /\ SelectsByScope(thr'[t], store, store')]_vars

\* What holds of the code alone: a scoped call that Chroma accepts selects as
\* C31 says, and the three methods are refused the same where documents,
\* but for the empty one, which only delete_all can be refused.
C31_AcceptedFiltersAgree ==
    [][\A t \in SoleCaller :
          (Finishes(t) /\ ScopedCall(thr'[t]))
          => /\ thr'[t].outcome = "ok" => SelectsByScope(thr'[t], store, store')
             /\ thr'[t].outcome = "raised"
                   => /\ store' = store
                      /\ \/ Cardinality(WhereClause(thr'[t].scope)) > 1
                         \/ thr'[t].op = "delete_all" /\ thr'[t].scope = NoScope]_vars

(***************************************************************************)
(* C32.  reset() succeeds from every reachable state, also when no record  *)
(* was ever added; after it get_all() is empty, history(id) is empty for   *)
(* every id and calculate_strength(id) is 0 for every id.  reset is        *)
(* idempotent: a reset that follows a reset leaves the stores as they are. *)
(***************************************************************************)
C32_ResetClearsEverything ==
    [][\A t \in SoleCaller :
          (Finishes(t) /\ thr'[t].op = "reset")
          => /\ thr'[t].outcome = "ok"
             /\ GetAllIn(store', NoScope) = <<>>
             /\ \A id \in AllIds :
                   /\ HistoryIn(hist', id) = {<<>>}
                   /\ StrengthNumIn(meta', id) = 0
             /\ thr[t].op = "reset"
                   => /\ store' = store /\ meta' = meta /\ hist' = hist
                      /\ thr'[t] = thr[t]]_vars

\* A reset has returned in a state with a live record, its metadata and two
\* history entries: nothing of them is left.
C32_Witness ==
    /\ \A t \in SoleCaller : thr[t].pc = "idle" /\ thr[t].op = "reset"
    /\ \E id \in DOMAIN pre.store : id \in DOMAIN pre.meta /\ Len(LogIn(pre.hist, id)) = 2
    /\ store = <<>> /\ meta = <<>> /\ hist = <<>>

\* A reset has returned where no record was ever added.
C32_WitnessUnused ==
    /\ \A t \in SoleCaller : thr[t].pc = "idle" /\ thr[t].op = "reset"
    /\ nextId = 1
    /\ pre.store = <<>> /\ pre.meta = <<>> /\ pre.hist = <<>>

(***************************************************************************)
(* FairSpec: two concurrent callers that add (infer on or off), update,    *)
(* delete and sweep, each of which goes on with the call it is in.  A      *)
(* caller is a thread: the interpreter keeps scheduling it, and every      *)
(* statement of a method, the calls of the embedding model, the LLM,       *)
(* Chroma and SQLite included, comes back (with a value or an exception).  *)
(* Nobody is obliged to begin a call.                                      *)
(***************************************************************************)
LiveStep(t) ==
    \/ AddInsert(t, {NoScope}) \/ AddLog(t) \/ AddMeta(t)
    \/ InferFacts(t, {NoScope}) \/ InferSearch(t) \/ InferDecide(t)
    \/ UpdateStore(t) \/ UpdateLog(t)
    \/ DeleteStore(t) \/ DeleteLog(t)
    \/ DecaySnapshot(t) \/ DecayCheck(t) \/ DecayDelete(t) \/ DecayLog(t)
    \/ EmbeddingFails(t) \/ LlmFails(t)

NextLive == \E t \in Threads : LiveStep(t)

Proceeds(t) == thr[t].pc # "idle" /\ LiveStep(t)

FairSpec == Init /\ [][NextLive]_vars /\ \A t \in Threads : WF_vars(Proceeds(t))

\* Caller t is in a call of add (infer on or off) or of decay_memories.
InAddOrDecay(t) == thr[t].pc # "idle" /\ thr[t].op \in {"add", "decay"}

\* The steps of the loops: the sweep goes from one snapshot record to the
\* next, add from one extracted fact to the next, and neither goes back.
LoopsAdvance(t) ==
    /\ (thr[t].op = "decay" /\ thr[t].pc # "idle" /\ thr'[t].pc # "idle")
          => /\ thr'[t].snap = thr[t].snap
             /\ thr'[t].idx \in {thr[t].idx, thr[t].idx + 1}
             /\ thr'[t].pc = "decay_check" /\ thr'[t] # thr[t]
                   => thr'[t].idx = thr[t].idx + 1
             /\ thr'[t].idx \in 1 .. Len(thr[t].snap)
    /\ (thr[t].op = "decay" /\ thr[t].pc # "idle" /\ thr'[t].pc = "idle"
          /\ thr'[t].outcome = "ok")
          => thr[t].idx = Len(thr[t].snap)
    /\ (thr[t].pc = "infer_search" /\ thr'[t] # thr[t])
          => \/ thr'[t].pc = "idle"
             \/ /\ thr'[t].pc = "infer_search"
                /\ thr'[t].fidx = thr[t].fidx + 1
                /\ thr'[t].fidx <= Len(thr[t].facts)
             \/ thr'[t].pc = "infer_decide" /\ thr[t].fidx = Len(thr[t].facts)

(***************************************************************************)
(* C33.  Provided every external capability call returns, every call of    *)
(* add (infer on or off) and of decay_memories ends, also while another    *)
(* caller adds, updates or deletes records: add searches once for each     *)
(* extracted fact, decides once and stores once, and decay_memories goes   *)
(* through the snapshot it took at its start, one record after the other,  *)
(* each record exactly once.                                               *)
(***************************************************************************)
C33_AddAndDecayTerminate ==
    /\ \A t \in Threads : InAddOrDecay(t) ~> (thr[t].pc = "idle")
    /\ [][\A t \in Threads : LoopsAdvance(t)]_vars

\* A sweep is at the second record of its snapshot while the other caller
\* has removed a record and is inside another call.
C33_Witness ==
    \E t \in Threads : \E u \in Threads \ {t} :
        /\ thr[t].op = "decay" /\ thr[t].pc = "decay_check" /\ thr[t].idx = 2
        /\ thr[u].pc # "idle"
        /\ Range(thr[t].snap) \ DOMAIN store # {}

\* The log h replays to the collection s: an id is live exactly when its
\* entries end with ADD or UPDATE, and the content of a live record is the
\* payload of its last entry (entries in the order they were written).
Replayable(s, h) ==
    \A id \in AllIds :
        LET log == LogIn(h, id)
        IN /\ id \in DOMAIN s
                 <=> (log # <<>> /\ log[Len(log)][1] \in {"ADD", "UPDATE"})
           /\ id \in DOMAIN s => log[Len(log)][2] = s[id].document

(***************************************************************************)
(* C34.  The audit trail is replayable: in every state reached by          *)
(* completed operations (between resets), a record id is live if and only  *)
(* if history(id) is not empty and its last action is ADD or UPDATE, and    *)
(* the content of every live record is the payload of the last entry of    *)
(* its history.  (Stated as what every call that returns preserves; the    *)
(* empty stores are replayable.)                                           *)
(***************************************************************************)
C34_AuditTrailReplays ==
    [][\A t \in SoleCaller :
          (Finishes(t) /\ thr'[t].outcome = "ok" /\ Replayable(pre'.store, pre'.hist))
          => Replayable(store', hist')]_vars

(***************************************************************************)
(* AsyncMemory.  Its methods await the capabilities and hand the store     *)
(* calls to worker threads (asyncio.to_thread); the store helpers are the  *)
(* ones of BaseMemory, so _log_history, _update_metadata,                  *)
(* _delete_memory_from_collection, get and the sweep are the steps above.  *)
(* Two places differ.  _get_embedding is a coroutine function in this      *)
(* class: _add_memory_to_collection and _update_memory_in_collection call  *)
(* self._get_embedding(data) without await, get the coroutine object in    *)
(* place of the vector, and Chroma refuses it as an embedding.  search     *)
(* compares each distance with distance_threshold, a name that is not      *)
(* bound in AsyncMemory.search (its parameter is called threshold):        *)
(* NameError at the first row that collection.query returns.               *)
(* AsyncSpec: the single caller of SeqSpec, who also calls an AsyncMemory  *)
(* opened on the same stores.                                              *)
(***************************************************************************)
\* What self._get_embedding(data) evaluates to inside a helper of BaseMemory.
EmbeddingIn(class) == IF class = "AsyncMemory" THEN "coroutine" ELSE "vector"

\* collection.add / collection.update validate the embeddings they are given.
EmbeddingAccepted(embedding) == embedding = "vector"

\* collection.query returns the nearest rows among the records that match the
\* where document: there is a first distance to compare iff one matches.
ComparesDistance(s, scope) == GetAllIds(s, scope) # {}

AsyncSearch(t) ==
    /\ Begin(t)
    /\ \E q \in Queries, scope \in Scopes :
          Set(t, IF ComparesDistance(store, scope)
                 THEN [Raise EXCEPT !.op = "async_search", !.data = q, !.scope = scope]
                 ELSE [Return EXCEPT !.op = "async_search", !.data = q, !.scope = scope,
                                     !.listed = <<>>])
    /\ UNCHANGED <<store, meta, hist, nextId, clock>>

\* await asyncio.to_thread(self._add_memory_to_collection, ...), then the log
\* and metadata steps of _add_memory.
AsyncInsert(t, f) ==
    IF EmbeddingAccepted(EmbeddingIn("AsyncMemory"))
    THEN Insert(t, [f EXCEPT !.op = "add"])
    ELSE /\ Set(t, [f EXCEPT !.pc = "idle", !.outcome = "raised"])
         /\ UNCHANGED <<store, meta, hist, nextId, clock>>

\* await asyncio.to_thread(self._update_memory_in_collection, memory_id, data)
AsyncReplace(t, f) ==
    IF EmbeddingAccepted(EmbeddingIn("AsyncMemory"))
    THEN Replace(t, [f EXCEPT !.op = IF f.infer THEN "add" ELSE "update"])
    ELSE /\ Set(t, [f EXCEPT !.pc = "idle", !.outcome = "raised"])
         /\ UNCHANGED <<store, meta, hist, nextId, clock>>

\* AsyncMemory.add(infer=False)
AsyncAdd(t) ==
    /\ Begin(t)
    /\ \E data \in Data, scope \in Scopes :
          AsyncInsert(t, [NewCall("async_add") EXCEPT !.data = data, !.scope = scope])

\* AsyncMemory.add(infer=True): extraction, one search for each fact (there
\* is always a first fact), the decision and its branch.
AsyncInferAdd(t) ==
    /\ Begin(t)
    /\ \E data \in Data, scope \in Scopes, decision \in Decisions :
          LET f == [NewCall("async_add") EXCEPT !.data = data, !.scope = scope,
                                                 !.infer = TRUE, !.decision = decision]
          IN IF ComparesDistance(store, scope)
             THEN /\ Set(t, [f EXCEPT !.pc = "idle", !.outcome = "raised"])
                  /\ UNCHANGED <<store, meta, hist, nextId, clock>>
             ELSE IF Branch(decision) = "update"
             THEN AsyncReplace(t, [f EXCEPT !.mid = TargetOf(decision)])
             ELSE IF Branch(decision) = "delete"
             THEN Remove(t, [f EXCEPT !.op = "add", !.mid = TargetOf(decision)])
             ELSE AsyncInsert(t, f)

\* AsyncMemory.update
AsyncUpdate(t) ==
    /\ Begin(t)
    /\ \E id \in NameableIds, data \in Data :
          AsyncReplace(t, [NewCall("async_update") EXCEPT !.mid = id, !.data = data])

NextAsync ==
    \/ NextSeq
    \/ \E t \in SoleCaller :
          AsyncAdd(t) \/ AsyncInferAdd(t) \/ AsyncUpdate(t) \/ AsyncSearch(t)

AsyncSpec == Init /\ [][NextAsync]_vars

\* What the Memory method of the same name does with the arguments and the
\* capability responses of the call of AsyncMemory that frame f records.
AsMemory(f, p, s1, h1) ==
    /\ f.outcome = "ok"
    /\ (f.op = "async_add" /\ (~f.infer \/ Branch(f.decision) = "add"))
          => /\ AddedAsNew(f, p, s1, h1)
             /\ \E id \in Range(SearchIn(s1, f.data, f.scope)) : s1[id].document = f.data
    /\ (f.op = "async_add" /\ f.infer /\ Branch(f.decision) = "update")
          => /\ s1 = UpdateInCollection(p.store, TargetOf(f.decision), f.data)
             /\ AppendsOne(p.hist, h1, TargetOf(f.decision), "UPDATE", f.data)
    /\ f.op = "async_update"
          => /\ s1 = UpdateInCollection(p.store, f.mid, f.data)
             /\ AppendsOne(p.hist, h1, f.mid, "UPDATE", f.data)
    /\ f.op = "async_search"
          => /\ f.listed = SearchIn(p.store, f.data, f.scope)
             /\ s1 = p.store /\ h1 = p.hist

AsyncCall(f) == f.op \in {"async_add", "async_update", "async_search"}

(***************************************************************************)
(* C35.  From the same starting state and with the same capability         *)
(* responses, a call of AsyncMemory's add, update, delete, get,            *)
(* decay_memories or search leaves the record store, the metadata store    *)
(* and the history log as the call of the Memory method of the same name   *)
(* does; in particular an async add(infer=False) returns, and a scoped     *)
(* async search for its text then finds the added document.                *)
(***************************************************************************)
C35_AsyncAgreesWithMemory ==
    [][\A t \in SoleCaller :
          (Finishes(t) /\ AsyncCall(thr'[t]))
          => AsMemory(thr'[t], pre', store', hist')]_vars

\* What the calls of AsyncMemory do: add and update end with an exception
\* and leave the stores as they were (an add that is told to DELETE while no
\* record matches its scope goes on through the steps of delete); search
\* raises when a record matches the scope and returns the empty list when
\* none does.
C35_AsyncWritesFail ==
    [][\A t \in SoleCaller :
          (Finishes(t) /\ AsyncCall(thr'[t]))
          => /\ store' = pre'.store /\ hist' = pre'.hist /\ meta' = pre'.meta
             /\ thr'[t].op # "async_search" => thr'[t].outcome = "raised"
             /\ thr'[t].op = "async_search"
                   => /\ thr'[t].outcome = "ok" <=> GetAllIds(store, thr'[t].scope) = {}
                      /\ thr'[t].listed = <<>>]_vars

(***************************************************************************)
(* C36.  update(id, data) leaves the metadata store unchanged: it creates  *)
(* no metadata entry and changes neither importance nor access_count nor   *)
(* the last-accessed timestamp of id, so the strength of an updated record *)
(* is computed from the importance rated for its original content.         *)
(***************************************************************************)
C36_UpdateKeepsMetadata ==
    [][\A t \in SoleCaller :
          /\ thr[t].pc \in {"update_store", "update_log"} \/ thr'[t].pc = "update_log"
                => meta' = meta
          /\ (Finishes(t) /\ thr[t].pc = "update_log")
                => /\ meta' = pre.meta
                   /\ DOMAIN meta' = DOMAIN pre.meta
                   /\ \A now \in 0 .. MaxClock :
                         /\ StrengthNumIn(meta', thr[t].mid) = StrengthNumIn(pre.meta, thr[t].mid)
                         /\ StrengthDenIn(meta', now, thr[t].mid)
                               = StrengthDenIn(pre.meta, now, thr[t].mid)]_vars

\* An update has returned that gave another content to a live record, rated
\* at its add and read once since: its metadata is what it was.
C36_Witness ==
    /\ \A t \in SoleCaller : thr[t].pc = "idle" /\ thr[t].outcome = "ok"
    /\ Len(hist) = Len(pre.hist) + 1
    /\ LET last == hist[Len(hist)]
       IN /\ last.action = "UPDATE"
          /\ last.memory_id \in DOMAIN store \cap DOMAIN pre.store
          /\ store[last.memory_id].document # pre.store[last.memory_id].document
          /\ last.memory_id \in DOMAIN meta
          /\ meta[last.memory_id].access_count = 2
          /\ meta[last.memory_id].importance > 0
    /\ meta = pre.meta

\* No live record of the collection s is below the threshold at the time now.
NoneWeaker(s, m, now, threshold) ==
    \A id \in DOMAIN s : ~Weaker(m, now, id, threshold)

(***************************************************************************)
(* C37.  With the clock held fixed and no other operation in between,      *)
(* decay_memories(t) is idempotent: a sweep leaves no live record below    *)
(* its threshold, and a sweep that begins where no live record is below    *)
(* its threshold removes no record and appends no history entry; so a      *)
(* second decay_memories(t) right after the first does nothing, and no id  *)
(* has two DECAY entries from consecutive sweeps.                          *)
(***************************************************************************)
C37_DecayIsIdempotent ==
    [][/\ \A t \in SoleCaller :
             (SweepEnds(t) /\ clock' = pre.clock)
             => /\ NoneWeaker(store', meta', clock', thr[t].threshold)
                /\ NoneWeaker(pre.store, pre.meta, pre.clock, thr[t].threshold)
                      => store' = pre.store /\ hist' = pre.hist
       /\ \A id \in AllIds : Count(hist', id, {"DECAY"}) <= 1]_vars

\* The second sweep in a row with the threshold 0.5 has returned: the first
\* removed a record and kept another, the second removed and logged nothing.
C37_Witness ==
    /\ \A t \in SoleCaller :
          thr[t].pc = "idle" /\ thr[t].outcome = "ok" /\ thr[t].threshold = 5
    /\ calls = 2
    /\ clock = pre.clock
    /\ store = pre.store /\ hist = pre.hist
    /\ DOMAIN store # {}
    /\ Len(hist) = 3 /\ hist[3].action = "DECAY" /\ hist[3].memory_id \notin DOMAIN pre.store

\* The record the sweep of caller t is at.
SweepTarget(t) == thr[t].snap[thr[t].idx]

\* The sweep of caller t removes nothing but the record it is at, a record
\* of its snapshot; the snapshot is the live records at the start.
RemovesFromSnapshot(t) ==
    /\ (thr[t].op = "decay" /\ thr[t].pc # "idle" /\ thr'[t] # thr[t])
          => /\ DOMAIN store \ DOMAIN store' \subseteq {SweepTarget(t)}
             /\ thr'[t].pc # "idle" => thr'[t].snap = thr[t].snap
    /\ (thr'[t].op = "decay" /\ thr'[t].pc # "idle" /\ thr[t].pc = "idle")
          => Range(thr'[t].snap) = DOMAIN store

(***************************************************************************)
(* C38.  decay_memories works on the snapshot of the live records taken at *)
(* its start: a record inserted after the snapshot is never removed by     *)
(* that sweep, and for a snapshot record that another caller has deleted   *)
(* before the sweep reaches it, the sweep goes on to the next record and   *)
(* appends no DECAY entry (no id gets both a DELETE and a DECAY entry for   *)
(* one removal).                                                           *)
(***************************************************************************)
C38_SweepSkipsDeletedRecords ==
    [][\A t \in Threads :
          /\ RemovesFromSnapshot(t)
          /\ (thr[t].pc = "decay_check" /\ thr'[t].pc = "decay_delete")
                => SweepTarget(t) \in DOMAIN store
          /\ (thr[t].pc = "decay_log" /\ thr'[t] # thr[t] /\ hist' # hist)
                => Count(hist, SweepTarget(t), {"DELETE"}) = 0]_vars

\* The part that holds: the sweep removes records of its snapshot only.
C38_OnlySnapshotRecords ==
    [][\A t \in Threads : RemovesFromSnapshot(t)]_vars

\* Caller u is in add between the insert of its record and the write of the
\* record's metadata.
InAddWindow(u) == thr[u].op = "add" /\ thr[u].pc \in {"add_log", "add_meta"}

(***************************************************************************)
(* C39.  A record that is being added is never removed by a concurrent     *)
(* decay_memories(threshold) only because its metadata is not written yet: *)
(* in the window of add between the store insert and the metadata write, a *)
(* sweep with a threshold above 0 does not take the record for one of      *)
(* strength 0 and delete it, and the metadata write of add never creates a *)
(* metadata entry for a record that has been removed.                      *)
(***************************************************************************)
C39_AddWindowIsSafeFromDecay ==
    [][\A t \in Threads :
          /\ (thr[t].pc = "decay_check" /\ thr'[t].pc = "decay_delete")
                => \A u \in Threads \ {t} :
                      ~(InAddWindow(u) /\ thr[u].mid = SweepTarget(t))
          /\ (thr[t].pc = "add_meta" /\ thr'[t].pc = "idle" /\ meta' # meta)
                => thr[t].mid \in DOMAIN store]_vars

\* Every id that has a metadata entry in m has entries in the log h, the
\* first of which (in the order they were written) is ADD.
RatedAfterAdd(m, h) ==
    \A id \in DOMAIN m : LogIn(h, id) # <<>> /\ LogIn(h, id)[1][1] = "ADD"

(***************************************************************************)
(* C40.  In every state reachable through the Memory class (between        *)
(* resets), every id that has a metadata entry has a non-empty history     *)
(* whose first entry is ADD: a metadata entry is only ever created by the   *)
(* last step of add, after the insert of the record and the append of its  *)
(* ADD entry, and get creates no metadata entry.                           *)
(***************************************************************************)
C40_MetadataFollowsAdd ==
    [][/\ RatedAfterAdd(meta', hist')
       /\ \A id \in DOMAIN meta' \ DOMAIN meta :
             \E t \in Threads :
                /\ thr[t].pc = "add_meta" /\ thr[t].mid = id /\ thr'[t].pc = "idle"
                /\ Count(hist, id, {"ADD"}) = 1]_vars

====
